---- MODULE Spec2Model ----
(***************************************************************************)
(* Model of the automation orchestration engine of bootCasosV2:            *)
(* ControladorAutomatizacion (nucleo/controlador_automatizacion.py) with   *)
(* its GestorSesion, EstadoAutomatizacion, ClasificadorErrores and         *)
(* GestorReintentos.                                                       *)
(*                                                                         *)
(* The controller runs on one asyncio event loop: code between two awaits  *)
(* is atomic, and every await (a task in flight, the pause poll, the       *)
(* recovery sleep, a browser or login call) is a point where other         *)
(* coroutines (pausar, reanudar, detener, another ejecutar) may run.  Each *)
(* action below is the code from one resumption to the next await.         *)
(***************************************************************************)
EXTENDS Integers, Sequences, FiniteSets, TLC

(* ------------------------------ bounds --------------------------------- *)
MaxTareas == 2           \* longest task list handed to inicializar
MaxLlamadas == 2         \* number of ejecutar() calls made on the controller
MaxInicializaciones == 1 \* number of inicializar() calls
MaxFallos == 2           \* task failures raised by _procesar_tarea_individual
MaxEscapes == 1          \* exceptions that leave _procesar_tareas
MaxEscapesRecuperacion == 4 \* the same, in the runs of SpecRecuperacion
MaxTareasEscenario == 3  \* longest task list in SpecEscenario
MaxFallosCortacircuito == 12 \* task failures in SpecCortacircuito
MaxReloj == 1            \* last clock reading in SpecReintentos
MaxRelojAbortar == 10    \* last clock reading in SpecAbortar
MaxIntento == 6          \* largest of the small attempt numbers asked
MaxGestores == 3         \* GestorNavegador objects created in SpecNavegadores
MaxInicializacionesSolas == 6 \* inicializar() calls in SpecInicializar
MaxMayusculas == 1       \* upper-case letters in a partly capitalized "timeout"
MaxLlamadasProcesador == 4 \* ejecutar() calls made on one processor

Llamadas == 1..MaxLlamadas

(* ------------------- errores/clasificador_errores.py ------------------- *)
TipoError ==
  {"navegador_cerrado", "sesion_perdida", "elemento_no_encontrado",
   "timeout_red", "timeout_elemento", "captcha_fallido",
   "credenciales_invalidas", "error_api", "error_navegacion",
   "error_desconocido"}

\* self.patrones_error, in insertion order (a dict iterates in that order)
patrones_error ==
  << <<"invalid session", "sesion_perdida">>,
     <<"session not created", "navegador_cerrado">>,
     <<"no such session", "sesion_perdida">>,
     <<"chrome not reachable", "navegador_cerrado">>,
     <<"session timed out", "sesion_perdida">>,
     <<"disconnected", "navegador_cerrado">>,
     <<"element not found", "elemento_no_encontrado">>,
     <<"no such element", "elemento_no_encontrado">>,
     <<"element not visible", "elemento_no_encontrado">>,
     <<"element not clickable", "elemento_no_encontrado">>,
     <<"timeout", "timeout_elemento">>,
     <<"timed out", "timeout_elemento">>,
     <<"connection timeout", "timeout_red">>,
     <<"captcha", "captcha_fallido">>,
     <<"login failed", "credenciales_invalidas">>,
     <<"invalid credentials", "credenciales_invalidas">>,
     <<"api error", "error_api">>,
     <<"connection error", "error_api">>,
     <<"404", "error_api">>,
     <<"500", "error_api">>,
     <<"navigation", "error_navegacion">>,
     <<"page not found", "error_navegacion">> >>

\* _clasificar_por_tipo_excepcion: exception type name -> kind
clasificacion_tipos ==
  [t \in {"TimeoutError", "ConnectionError", "NoSuchElementException",
          "ElementNotVisibleException", "WebDriverException",
          "InvalidSessionIdException"} |->
     CASE t = "TimeoutError" -> "timeout_elemento"
       [] t = "ConnectionError" -> "timeout_red"
       [] t = "NoSuchElementException" -> "elemento_no_encontrado"
       [] t = "ElementNotVisibleException" -> "elemento_no_encontrado"
       [] t = "WebDriverException" -> "navegador_cerrado"
       [] t = "InvalidSessionIdException" -> "sesion_perdida"]

\* clasificar returning the kind of the last pattern that occurs
clasificar_ultimo_patron(error) ==
  LET hallados == {i \in 1..Len(patrones_error) :
                     patrones_error[i][1] \in error.contiene}
  IN IF hallados # {}
       THEN patrones_error[CHOOSE i \in hallados :
                             \A j \in hallados : i >= j][2]
       ELSE IF error.tipo_exc \in DOMAIN clasificacion_tipos
              THEN clasificacion_tipos[error.tipo_exc]
              ELSE "error_desconocido"

\* An error is the set of table patterns that occur in its lower-cased
\* message or lower-cased type name (contiene), and its type name (tipo_exc).
\* clasificar returns the kind of the first pattern of the table that occurs,
\* else the kind of the type name, else error_desconocido.
clasificar(error) ==
  LET hallados == {i \in 1..Len(patrones_error) :
                     patrones_error[i][1] \in error.contiene}
  IN IF hallados # {}
       THEN patrones_error[CHOOSE i \in hallados :
                             \A j \in hallados : i <= j][2]
       ELSE IF error.tipo_exc \in DOMAIN clasificacion_tipos
              THEN clasificacion_tipos[error.tipo_exc]
              ELSE "error_desconocido"

\* str.lower(), on the letters of the messages and type names of the model
Mayusculas ==
  <<"A", "B", "C", "D", "E", "F", "G", "H", "I", "J", "K", "L", "M",
  "N", "O", "P", "Q", "R", "S", "T", "U", "V", "W", "X", "Y", "Z">>

Minusculas ==
  <<"a", "b", "c", "d", "e", "f", "g", "h", "i", "j", "k", "l", "m",
  "n", "o", "p", "q", "r", "s", "t", "u", "v", "w", "x", "y", "z">>

a_minuscula ==
  [c \in {Mayusculas[i] : i \in 1..Len(Mayusculas)} |->
     Minusculas[CHOOSE i \in 1..Len(Mayusculas) : Mayusculas[i] = c]]

minuscula(c) == IF c \in DOMAIN a_minuscula THEN a_minuscula[c] ELSE c

minusculas(texto) == [i \in 1..Len(texto) |-> minuscula(texto[i])]

\* the characters of a pattern of the table and of an exception type name
letras(p) ==
  CASE p = "invalid session" ->
         <<"i", "n", "v", "a", "l", "i", "d", " ", "s", "e", "s",
         "s", "i", "o", "n">>
    [] p = "session not created" ->
         <<"s", "e", "s", "s", "i", "o", "n", " ", "n", "o", "t",
         " ", "c", "r", "e", "a", "t", "e", "d">>
    [] p = "no such session" ->
         <<"n", "o", " ", "s", "u", "c", "h", " ", "s", "e", "s",
         "s", "i", "o", "n">>
    [] p = "chrome not reachable" ->
         <<"c", "h", "r", "o", "m", "e", " ", "n", "o", "t", " ",
         "r", "e", "a", "c", "h", "a", "b", "l", "e">>
    [] p = "session timed out" ->
         <<"s", "e", "s", "s", "i", "o", "n", " ", "t", "i", "m",
         "e", "d", " ", "o", "u", "t">>
    [] p = "disconnected" ->
         <<"d", "i", "s", "c", "o", "n", "n", "e", "c", "t", "e",
         "d">>
    [] p = "element not found" ->
         <<"e", "l", "e", "m", "e", "n", "t", " ", "n", "o", "t",
         " ", "f", "o", "u", "n", "d">>
    [] p = "no such element" ->
         <<"n", "o", " ", "s", "u", "c", "h", " ", "e", "l", "e",
         "m", "e", "n", "t">>
    [] p = "element not visible" ->
         <<"e", "l", "e", "m", "e", "n", "t", " ", "n", "o", "t",
         " ", "v", "i", "s", "i", "b", "l", "e">>
    [] p = "element not clickable" ->
         <<"e", "l", "e", "m", "e", "n", "t", " ", "n", "o", "t",
         " ", "c", "l", "i", "c", "k", "a", "b", "l", "e">>
    [] p = "timeout" ->
         <<"t", "i", "m", "e", "o", "u", "t">>
    [] p = "timed out" ->
         <<"t", "i", "m", "e", "d", " ", "o", "u", "t">>
    [] p = "connection timeout" ->
         <<"c", "o", "n", "n", "e", "c", "t", "i", "o", "n", " ",
         "t", "i", "m", "e", "o", "u", "t">>
    [] p = "captcha" ->
         <<"c", "a", "p", "t", "c", "h", "a">>
    [] p = "login failed" ->
         <<"l", "o", "g", "i", "n", " ", "f", "a", "i", "l", "e",
         "d">>
    [] p = "invalid credentials" ->
         <<"i", "n", "v", "a", "l", "i", "d", " ", "c", "r", "e",
         "d", "e", "n", "t", "i", "a", "l", "s">>
    [] p = "api error" ->
         <<"a", "p", "i", " ", "e", "r", "r", "o", "r">>
    [] p = "connection error" ->
         <<"c", "o", "n", "n", "e", "c", "t", "i", "o", "n", " ",
         "e", "r", "r", "o", "r">>
    [] p = "404" ->
         <<"4", "0", "4">>
    [] p = "500" ->
         <<"5", "0", "0">>
    [] p = "navigation" ->
         <<"n", "a", "v", "i", "g", "a", "t", "i", "o", "n">>
    [] p = "page not found" ->
         <<"p", "a", "g", "e", " ", "n", "o", "t", " ", "f", "o",
         "u", "n", "d">>
    [] p = "Exception" ->
         <<"E", "x", "c", "e", "p", "t", "i", "o", "n">>
    [] p = "TimeoutError" ->
         <<"T", "i", "m", "e", "o", "u", "t", "E", "r", "r", "o",
         "r">>
    [] p = "DisconnectedError" ->
         <<"D", "i", "s", "c", "o", "n", "n", "e", "c", "t", "e",
         "d", "E", "r", "r", "o", "r">>
    [] p = "ConnectionError" ->
         <<"C", "o", "n", "n", "e", "c", "t", "i", "o", "n", "E",
         "r", "r", "o", "r">>
    [] p = "ValueError" ->
         <<"V", "a", "l", "u", "e", "E", "r", "r", "o", "r">>
    [] p = "NoSuchElementException" ->
         <<"N", "o", "S", "u", "c", "h", "E", "l", "e", "m", "e",
         "n", "t", "E", "x", "c", "e", "p", "t", "i", "o", "n">>
    [] p = "WebDriverException" ->
         <<"W", "e", "b", "D", "r", "i", "v", "e", "r", "E", "x",
         "c", "e", "p", "t", "i", "o", "n">>

\* Python's `patron in texto` on strings
esta_en(patron, texto) ==
  \E i \in 0..(Len(texto) - Len(patron)) :
    \A k \in 1..Len(patron) : texto[i + k] = patron[k]

\* mensaje_error = str(error).lower(), without the lower-casing
mensaje_error_sin_minusculas(mensaje) == mensaje

\* mensaje_error = str(error).lower()
mensaje_error(mensaje) == minusculas(mensaje)

\* tipo_error_str = type(error).__name__.lower()
tipo_error_str(tipo_exc) == minusculas(letras(tipo_exc))

\* the patterns for which `patron in mensaje_error or patron in
\* tipo_error_str` holds
patrones_hallados(mensaje, tipo_exc) ==
  {patrones_error[i][1] : i \in
     {j \in 1..Len(patrones_error) :
        \/ esta_en(letras(patrones_error[j][1]), mensaje_error(mensaje))
        \/ esta_en(letras(patrones_error[j][1]), tipo_error_str(tipo_exc))}}

\* clasificar on an exception of type tipo_exc whose str() is mensaje
clasificar_mensaje(mensaje, tipo_exc) ==
  clasificar([contiene |-> patrones_hallados(mensaje, tipo_exc),
              tipo_exc |-> tipo_exc])

\* requiere_reinicio_completo, on the classified kind
requiere_reinicio_completo(tipo) ==
  tipo \in {"navegador_cerrado", "sesion_perdida", "credenciales_invalidas"}

\* obtener_estrategia_recuperacion with the entry of CREDENCIALES_INVALIDAS
\* missing: the kind gets the default of estrategias.get
obtener_estrategia_sin_credenciales(tipo) ==
  CASE tipo = "navegador_cerrado" -> "reiniciar_navegador_completo"
    [] tipo = "sesion_perdida" -> "reiniciar_sesion"
    [] tipo = "elemento_no_encontrado" -> "recargar_pagina"
    [] tipo = "timeout_red" -> "esperar_y_reintentar"
    [] tipo = "timeout_elemento" -> "recargar_y_buscar"
    [] tipo = "captcha_fallido" -> "reintentar_captcha"
    [] tipo = "error_api" -> "verificar_conexion_api"
    [] tipo = "error_navegacion" -> "navegar_desde_inicio"
    [] OTHER -> "reintentar_generico"

\* obtener_estrategia_recuperacion
obtener_estrategia_recuperacion(tipo) ==
  CASE tipo = "navegador_cerrado" -> "reiniciar_navegador_completo"
    [] tipo = "sesion_perdida" -> "reiniciar_sesion"
    [] tipo = "elemento_no_encontrado" -> "recargar_pagina"
    [] tipo = "timeout_red" -> "esperar_y_reintentar"
    [] tipo = "timeout_elemento" -> "recargar_y_buscar"
    [] tipo = "captcha_fallido" -> "reintentar_captcha"
    [] tipo = "credenciales_invalidas" -> "verificar_credenciales"
    [] tipo = "error_api" -> "verificar_conexion_api"
    [] tipo = "error_navegacion" -> "navegar_desde_inicio"
    [] tipo = "error_desconocido" -> "reintentar_generico"
    [] OTHER -> "reintentar_generico"

(* --------------------- errores/gestor_reintentos.py -------------------- *)
\* a table that grants every kind six retries
max_reintentos_de_seis(tipo) == 6

\* config_reintentos[tipo]["max_reintentos"]
max_reintentos(tipo) ==
  CASE tipo = "navegador_cerrado" -> 3
    [] tipo = "sesion_perdida" -> 3
    [] tipo = "elemento_no_encontrado" -> 3
    [] tipo = "timeout_red" -> 5
    [] tipo = "timeout_elemento" -> 3
    [] tipo = "captcha_fallido" -> 2
    [] tipo = "credenciales_invalidas" -> 1
    [] tipo = "error_api" -> 3
    [] tipo = "error_navegacion" -> 2
    [] tipo = "error_desconocido" -> 2

\* puede_reintentar with the comparison mistaken for an inequality
puede_reintentar_distinto(tipo, intento_actual) ==
  intento_actual # max_reintentos(tipo)

\* puede_reintentar: the decision
puede_reintentar(tipo, intento_actual) == intento_actual < max_reintentos(tipo)

\* _registrar_intento with the store lost: nothing is recorded
registrar_intento_perdido(historial, tipo, intento) == historial

\* _registrar_intento: the record appended to the history of a context
\* (the controller passes no context, so the records go to "default"; its
\* calls are an await apart and read distinct timestamps here)
registrar_intento(historial, tipo, intento) ==
  Append(historial, [tipo_error |-> tipo, intentos |-> intento])

\* config_reintentos[tipo]["tiempo_espera"]
tiempo_espera(tipo) ==
  CASE tipo = "navegador_cerrado" -> 5
    [] tipo = "sesion_perdida" -> 3
    [] tipo = "elemento_no_encontrado" -> 1
    [] tipo = "timeout_red" -> 10
    [] tipo = "timeout_elemento" -> 2
    [] tipo = "captcha_fallido" -> 1
    [] tipo = "credenciales_invalidas" -> 0
    [] tipo = "error_api" -> 5
    [] tipo = "error_navegacion" -> 3
    [] tipo = "error_desconocido" -> 5

\* config_reintentos[tipo]["incremento_espera"] as a fraction <<num, den>>
\* and whether the literal is a float: 2 and 1 are ints, 1.5 and 1.2 floats
incremento_espera(tipo) ==
  CASE tipo = "navegador_cerrado" -> [num |-> 2, den |-> 1, flotante |-> FALSE]
    [] tipo = "sesion_perdida" -> [num |-> 3, den |-> 2, flotante |-> TRUE]
    [] tipo = "timeout_red" -> [num |-> 6, den |-> 5, flotante |-> TRUE]
    [] tipo = "error_api" -> [num |-> 3, den |-> 2, flotante |-> TRUE]
    [] OTHER -> [num |-> 1, den |-> 1, flotante |-> FALSE]

\* config_reintentos[tipo]["reintentos_inmediatos"]
reintentos_inmediatos(tipo) ==
  IF tipo \in {"elemento_no_encontrado", "timeout_elemento"} THEN 1 ELSE 0

\* incremento ** exponente raises OverflowError when incremento is a float
\* and the power is beyond the largest double (2^1024): 1.5^1751 and
\* 1.2^3894 are the first such powers.  An int ** int never overflows.
potencia_desborda(inc, exponente) ==
  /\ inc.flotante
  /\ \/ inc.num = 3 /\ inc.den = 2 /\ exponente >= 1751
     \/ inc.num = 6 /\ inc.den = 5 /\ exponente >= 3894

\* int(min(base * (num/den) ** exponente, 60)) for exponente >= 0 and
\* num >= den: the fraction n/d is base * (num/den)^k; the power grows with
\* k, so the result is 60 as soon as one n/d reaches 60
RECURSIVE tiempo_acotado(_, _, _, _, _)
tiempo_acotado(n, d, inc, k, exponente) ==
  IF n >= 60 * d THEN 60
  ELSE IF k = exponente \/ inc.num = inc.den THEN n \div d
  ELSE tiempo_acotado(n * inc.num, d * inc.den, inc, k + 1, exponente)

\* calcular_tiempo_espera; the handler turns any exception into 5
calcular_tiempo_espera(tipo, intento) ==
  IF intento <= reintentos_inmediatos(tipo) THEN 0
  ELSE LET exponente == intento - reintentos_inmediatos(tipo) - 1
       IN IF potencia_desborda(incremento_espera(tipo), exponente) THEN 5
          ELSE tiempo_acotado(tiempo_espera(tipo), 1, incremento_espera(tipo),
                              0, exponente)

\* datetime.now() is read in whole minutes in the model; the window of
\* debe_abortar is then ventana_tiempo_minutos ticks long
ventana_tiempo_minutos == 10

\* self.historial_reintentos with its keys: a function from the contexts that
\* have a history to a function from timestamps to records.
\* _registrar_intento at the clock reading ahora: the record is stored under
\* the timestamp, replacing a record already stored under it
registrar_intento_en(historiales, contexto, tipo, intento, ahora) ==
  LET previo == IF contexto \in DOMAIN historiales
                  THEN historiales[contexto] ELSE << >>
      nuevo == [ts \in DOMAIN previo \cup {ahora} |->
                  IF ts = ahora
                    THEN [tipo_error |-> tipo, intentos |-> intento]
                    ELSE previo[ts]]
  IN [c \in DOMAIN historiales \cup {contexto} |->
        IF c = contexto THEN nuevo ELSE historiales[c]]

\* the sum of info["intentos"] over the records of h with a timestamp in S
RECURSIVE suma_intentos(_, _)
suma_intentos(h, S) ==
  IF S = {} THEN 0
  ELSE LET ts == CHOOSE x \in S : TRUE
       IN h[ts].intentos + suma_intentos(h, S \ {ts})

\* debe_abortar at the clock reading ahora
debe_abortar(historiales, contexto, ahora, ventana) ==
  IF contexto \notin DOMAIN historiales THEN FALSE
  ELSE LET historial == historiales[contexto]
           limite_tiempo == ahora - ventana
           recientes == {ts \in DOMAIN historial : ts >= limite_tiempo}
       IN suma_intentos(historial, recientes) > 10

(* ---------------------- nucleo/gestor_navegador.py --------------------- *)
\* the context names under which the program creates a GestorNavegador, by
\* who creates it: the dual facade and the UI pass "pacientes" and "casos",
\* ProcesadorPacientes and ProcesadorCasos pass "PACIENTES" and "CASOS"
ContextosDe(origen) ==
  IF origen = "procesador" THEN {"PACIENTES", "CASOS"}
  ELSE {"pacientes", "casos"}

Origenes == {"fachada", "interfaz", "procesador"}

\* contexto.lower() on those names
minusculas_contexto(contexto) ==
  CASE contexto = "PACIENTES" -> "pacientes"
    [] contexto = "CASOS" -> "casos"
    [] OTHER -> contexto

\* _asignar_puerto: puertos.get(self.contexto, 9224)
asignar_puerto(contexto) ==
  CASE contexto = "PACIENTES" -> 9222
    [] contexto = "CASOS" -> 9223
    [] OTHER -> 9224

\* GestorNavegador.__init__: the configuration of the new object
nuevo_gestor_navegador(contexto) ==
  [contexto |-> contexto,
   puerto_depuracion |-> asignar_puerto(contexto),
   directorio_datos |-> minusculas_contexto(contexto)]

\* The four resources of a GestorNavegador, in the order _limpiar_recursos
\* closes them (iniciar_navegador creates them in the reverse order).  A
\* GestorNavegador is a function from them to whether the field is set.
Recursos == <<"page", "context", "browser", "playwright">>

NombresRecursos == {Recursos[i] : i \in DOMAIN Recursos}

posicion(recurso) == CHOOSE i \in DOMAIN Recursos : Recursos[i] = recurso

sin_recursos == [r \in NombresRecursos |-> FALSE]

\* _limpiar_recursos: each field that is set is closed and set to None, in
\* order, inside one try block.  falla is the resource whose close raises
\* ("ninguna": none does): the handler logs the exception, and the resource
\* and those after it keep their fields.  Nothing is raised to the caller.
limpiar_recursos(g, falla) ==
  IF falla \in NombresRecursos /\ g[falla]
    THEN [r \in NombresRecursos |-> g[r] /\ posicion(r) >= posicion(falla)]
    ELSE sin_recursos

\* cerrar_navegador: _limpiar_recursos between two log calls, under a
\* handler of its own
cerrar_navegador(g, falla) == limpiar_recursos(g, falla)

\* iniciar_navegador: playwright, browser, context and page are created and
\* assigned in turn; hasta is the number of them that are (4: all, and True
\* is returned).  When one fails, _limpiar_recursos runs and False is
\* returned.
iniciar_navegador(g, hasta, falla) ==
  LET creados == [r \in NombresRecursos |->
                    g[r] \/ posicion(r) > Len(Recursos) - hasta]
  IN IF hasta = Len(Recursos) THEN creados
     ELSE limpiar_recursos(creados, falla)

(* ------------------- errores/servicio_recuperacion.py ------------------ *)
\* The calls a recovery strategy makes on its collaborators.  An answer is
\* TRUE when the call returns a true value, FALSE when it returns a false
\* one or raises (every strategy turns an exception into False).
Colaboradores ==
  {"iniciar_navegador", "ir_a_login", "ejecutar_login_completo",
   "recargar_pagina", "wait_for_load_state", "ir_a_home", "verificar_salud"}

\* _ejecutar_estrategia: the value the strategy's method returns when the
\* collaborators answer r
ejecutar_estrategia(estrategia, r) ==
  CASE estrategia = "reiniciar_navegador_completo" ->
         r["iniciar_navegador"] /\ r["ir_a_login"]
           /\ r["ejecutar_login_completo"]
    [] estrategia = "reiniciar_sesion" ->
         r["ir_a_login"] /\ r["ejecutar_login_completo"]
    [] estrategia = "recargar_pagina" -> r["recargar_pagina"]
    [] estrategia = "esperar_y_reintentar" -> TRUE
    [] estrategia = "recargar_y_buscar" ->
         r["recargar_pagina"] /\ r["wait_for_load_state"]
    [] estrategia = "reintentar_captcha" -> TRUE
    [] estrategia = "verificar_credenciales" -> FALSE
    [] estrategia = "verificar_conexion_api" -> TRUE
    [] estrategia = "navegar_desde_inicio" -> r["ir_a_home"]
    [] OTHER -> r["verificar_salud"] \/ r["recargar_pagina"]

\* recuperar(error, intento): classify, pick the strategy, wait
\* calcular_tiempo_espera seconds, run the strategy
recuperar(error, intento, r) ==
  LET tipo_error == clasificar(error)
      estrategia == obtener_estrategia_recuperacion(tipo_error)
  IN [op |-> "recuperar", error |-> error, tipo |-> tipo_error,
      estrategia |-> estrategia, intento |-> intento,
      espera |-> calcular_tiempo_espera(tipo_error, intento),
      valor |-> ejecutar_estrategia(estrategia, r)]

\* The errors handed to recuperar: one of each kind, and the credential
\* errors with each of their patterns ("Login failed: timeout" is classified
\* by its earlier pattern, timeout)
ErroresRecuperacion ==
  { [contiene |-> {"invalid credentials"}, tipo_exc |-> "Exception"],
    [contiene |-> {"login failed"}, tipo_exc |-> "Exception"],
    [contiene |-> {"login failed", "invalid credentials"},
     tipo_exc |-> "Exception"],
    [contiene |-> {"login failed", "timeout"}, tipo_exc |-> "Exception"],
    [contiene |-> {"chrome not reachable"}, tipo_exc |-> "Exception"],
    [contiene |-> {"invalid session"}, tipo_exc |-> "Exception"],
    [contiene |-> {"element not found"}, tipo_exc |-> "Exception"],
    [contiene |-> {"captcha"}, tipo_exc |-> "Exception"],
    [contiene |-> {"api error"}, tipo_exc |-> "Exception"],
    [contiene |-> {"navigation"}, tipo_exc |-> "Exception"],
    [contiene |-> {}, tipo_exc |-> "ConnectionError"],
    [contiene |-> {}, tipo_exc |-> "ValueError"] }

(* ------------------ modelos/estado_automatizacion.py ------------------- *)
max_intentos == 3   \* EstadoAutomatizacion.max_intentos

\* GestorSesion.estado is None until inicializar_estado
sin_estado ==
  [existe |-> FALSE, estado |-> "detenido", items_totales |-> 0,
   items_procesados |-> 0, items_exitosos |-> 0, items_fallidos |-> 0,
   intentos_recuperacion |-> 0]

\* incrementar_procesado with the else branch lost: a failed item is counted
\* as a success
incrementar_procesado_sin_fallidos(e, exitoso) ==
  [e EXCEPT !.items_procesados = @ + 1, !.items_exitosos = @ + 1]

\* EstadoAutomatizacion.incrementar_procesado
incrementar_procesado(e, exitoso) ==
  [e EXCEPT !.items_procesados = @ + 1,
            !.items_exitosos = IF exitoso THEN @ + 1 ELSE @,
            !.items_fallidos = IF exitoso THEN @ ELSE @ + 1]

\* EstadoAutomatizacion.incrementar_intento_recuperacion
incrementar_intento_recuperacion(e) ==
  [e EXCEPT !.intentos_recuperacion = @ + 1]

(* ------------------- modelos/tarea_automatizacion.py ------------------- *)
\* TareaAutomatizacion.max_reintentos, the default; no caller passes another
max_reintentos_tarea == 3

(* ----------------------- nucleo/gestor_sesion.py ----------------------- *)
\* A GestorSesion is [estado, activa, pausada].
sesion_nueva == [estado |-> sin_estado, activa |-> FALSE, pausada |-> FALSE]

inicializar_estado(gs, items_totales) ==
  [gs EXCEPT !.estado =
     [existe |-> TRUE, estado |-> "detenido", items_totales |-> items_totales,
      items_procesados |-> 0, items_exitosos |-> 0, items_fallidos |-> 0,
      intentos_recuperacion |-> 0]]

\* iniciar_sesion, when self.estado is set (it raises otherwise)
iniciar_sesion(gs) ==
  [gs EXCEPT !.activa = TRUE, !.pausada = FALSE, !.estado.estado = "iniciando"]

pausar_sesion(gs) ==
  IF ~gs.activa THEN gs
  ELSE [gs EXCEPT !.pausada = TRUE, !.estado.estado = "pausado"]

reanudar_sesion(gs) ==
  IF ~gs.activa \/ ~gs.pausada THEN gs
  ELSE [gs EXCEPT !.pausada = FALSE, !.estado.estado = "procesando"]

detener_sesion(gs) ==
  [gs EXCEPT !.activa = FALSE, !.pausada = FALSE,
             !.estado.estado = IF gs.estado.existe THEN "detenido" ELSE @]

\* actualizar_progreso counting the item without saying how it ended
actualizar_progreso_solo_procesados(gs, exitoso) ==
  IF ~gs.estado.existe THEN gs
  ELSE [gs EXCEPT !.estado.items_procesados = @ + 1]

actualizar_progreso(gs, exitoso) ==
  IF ~gs.estado.existe THEN gs
  ELSE LET e == incrementar_procesado(gs.estado, exitoso)
           g == [gs EXCEPT !.estado = e]
       IN IF e.items_procesados >= e.items_totales
            THEN detener_sesion([g EXCEPT !.estado.estado = "completado"])
            ELSE g

marcar_error(gs) ==
  IF gs.estado.existe THEN [gs EXCEPT !.estado.estado = "error"] ELSE gs

iniciar_recuperacion(gs) ==
  IF ~gs.estado.existe THEN gs
  ELSE [gs EXCEPT !.estado =
          [incrementar_intento_recuperacion(gs.estado)
             EXCEPT !.estado = "recuperando"]]

recuperacion_exitosa(gs) ==
  IF gs.estado.existe THEN [gs EXCEPT !.estado.estado = "procesando"] ELSE gs

(* --------------- nucleo/controlador_automatizacion.py ------------------ *)
max_intentos_globales == 3

\* The exceptions _procesar_tarea_individual raises in the model: one error
\* per retry budget that the runs can exhaust, among them the kinds that
\* require a full restart.
ErroresTarea ==
  { [contiene |-> {"chrome not reachable"}, tipo_exc |-> "Exception"],
    [contiene |-> {"invalid credentials"}, tipo_exc |-> "Exception"],
    [contiene |-> {}, tipo_exc |-> "ValueError"] }

\* The exceptions of the scenario runs: a task does not find an element
ErroresEscenario ==
  { [contiene |-> {"element not found"}, tipo_exc |-> "Exception"],
    [contiene |-> {}, tipo_exc |-> "NoSuchElementException"] }

\* The exception of the runs with many retries: the network times out
\* (timeout_red has the largest retry budget, 5)
ErroresCortacircuito == { [contiene |-> {}, tipo_exc |-> "ConnectionError"] }

VARIABLES
  ejecutando,          \* self.ejecutando
  cola_tareas,         \* self.cola_tareas: the reintentos field of each task
  gestor_sesion,       \* self.gestor_sesion
  historial_reintentos,\* self.gestor_reintentos.historial_reintentos["default"]
  navegador,           \* the browser of self.gestor_navegador is open
  servicios,           \* servicio_navegacion and orquestador_login were built
  ini,                 \* the inicializar() call: its await and last result
  pc,                  \* per ejecutar() call: the await it is suspended at
  indice,              \* per call: local indice of _procesar_tareas (1-based)
  intentos_globales,   \* per call: local of _ejecutar_con_recuperacion
  resultado,           \* per call: the value ejecutar() returned
  fallos,              \* task failures raised so far
  escapes,             \* exceptions that left _procesar_tareas so far
  \* history kept for the properties
  fallidas,            \* the failures raised so far: <<call, task, kind>>
  liquidadas,          \* per call: the tasks it settled, in order
  detenida,            \* per call: detener() was called while it was running
  motivo,              \* per call: how the run ended
  pausa_pedida         \* per call: pausar() came while its task was in flight,
                       \* and no reanudar() or detener() since

VARIABLES
  \* a GestorReintentos on its own, with the clock its records are keyed by
  reloj,               \* datetime.now()
  historiales,         \* self.historial_reintentos, all contexts
  retorno,             \* the last call made on it and the value it returned
  \* the retry policy asked for two attempts in a row
  previa,              \* the call before the last one and its answers
  ultima,              \* the last call and its answers
  \* a ServicioRecuperacion
  recuperacion,        \* the last recuperar() call and the value it returned
  \* the ControladorAutomatizacionPrincipal
  proceso_activo,      \* per context: self.proceso_<contexto>_activo
  gestores_navegador,  \* per context: self.gestor_navegador_<contexto> is set
  dual,                \* the ejecutar_automatizacion_dual() call
  detencion            \* the detener_todos_los_procesos() call

VARIABLES
  \* the GestorNavegador objects of a program run
  navegadores_creados, \* in the order they were created, with who created them
  \* the GestorNavegador of each context, on its own
  recursos_navegador,  \* which of playwright, browser, context, page are set
  limpieza,            \* the teardown calls made in a row since the last
                       \* iniciar_navegador, and the fields after the first
  \* a ClasificadorErrores on its own
  clasificacion,       \* the last clasificar call: message, type name, kind
                       \* returned, and the kind the call before returned
  \* the ProcesadorBase of each context, on its own
  procesadores,        \* its ejecutando flag, the ejecutando flag of its
                       \* controller, whether its controller holds a session
                       \* with tasks, and its ejecutar() calls
  \* a ServicioRecuperacion, its recuperar() call step by step
  reinicio             \* where the call is, what it computed, the calls it
                       \* made on its collaborators with their answers, and
                       \* the value it returned

vars_controlador ==
  <<ejecutando, cola_tareas, gestor_sesion, historial_reintentos, navegador,
    servicios, ini, pc, indice, intentos_globales, resultado, fallos, escapes,
    fallidas, liquidadas, detenida, motivo, pausa_pedida>>

vars_reintentos == <<reloj, historiales, retorno>>
vars_politica == <<previa, ultima>>
vars_principal == <<proceso_activo, gestores_navegador, dual, detencion>>
vars_navegador == <<recursos_navegador, limpieza>>
vars_componentes ==
  <<navegadores_creados, vars_navegador, clasificacion, procesadores, reinicio>>
vars_gestores ==
  <<vars_reintentos, vars_politica, recuperacion, vars_principal,
    vars_componentes>>

vars == <<vars_controlador, vars_gestores>>

sin_llamada == [op |-> "ninguna"]

\* ResultadoAutomatizacion(exitoso, mensaje); the messages "ninguna" and
\* "pendiente" stand for a branch that was not started or has not returned
ResultadoAutomatizacion(exitoso, mensaje) ==
  [exitoso |-> exitoso, mensaje |-> mensaje]

\* the contexts of the dual automation
Contextos == {"pacientes", "casos"}

\* no recuperar() call was made yet
sin_recuperar ==
  [pc |-> "no", estrategia |-> "ninguna", intento |-> 0, espera |-> 0,
   traza |-> << >>, valor |-> FALSE]

LlamadasProcesador == 1..MaxLlamadasProcesador

\* ProcesadorBase.__init__ and the ControladorAutomatizacion it creates
procesador_nuevo ==
  [ejecutando |-> FALSE,
   controlador_ejecutando |-> FALSE,
   inicializado |-> FALSE,
   pc |-> [k \in LlamadasProcesador |-> "libre"],
   resultado |-> [k \in LlamadasProcesador |-> "pendiente"]]

sin_limpieza ==
  [seguidas |-> 0, tras_primera |-> sin_recursos, lanzo |-> FALSE]

InitGestores ==
  /\ reloj = 0
  /\ historiales = << >>
  /\ retorno = sin_llamada
  /\ previa = sin_llamada
  /\ ultima = sin_llamada
  /\ recuperacion = sin_llamada
  /\ proceso_activo = [c \in Contextos |-> FALSE]
  /\ gestores_navegador = [c \in Contextos |-> FALSE]
  /\ dual = [pc |-> "no",
             ramas |-> [c \in Contextos |->
                          ResultadoAutomatizacion(FALSE, "ninguna")]]
  /\ detencion = [pc |-> "no", ramas |-> [c \in Contextos |-> "ninguna"]]
  /\ navegadores_creados = << >>
  /\ recursos_navegador = [c \in Contextos |-> sin_recursos]
  /\ limpieza = [c \in Contextos |-> sin_limpieza]
  /\ clasificacion = [mensaje |-> << >>, tipo_exc |-> "Exception",
                      tipo |-> "ninguno", previa |-> "ninguno",
                      str_lanza |-> FALSE]
  /\ procesadores = [c \in Contextos |-> procesador_nuevo]
  /\ reinicio = sin_recuperar

EnCurso == {"tarea", "pausa", "rec_espera", "rec_navegador", "rec_ir_login",
            "rec_login"}

Init ==
  /\ ejecutando = FALSE
  /\ cola_tareas = << >>
  /\ gestor_sesion = sesion_nueva
  /\ historial_reintentos = << >>
  /\ navegador = FALSE
  /\ servicios = FALSE
  /\ ini = [pc |-> "no", hechas |-> 0, resultado |-> "ninguno"]
  /\ pc = [l \in Llamadas |-> "libre"]
  /\ indice = [l \in Llamadas |-> 0]
  /\ intentos_globales = [l \in Llamadas |-> 0]
  /\ resultado = [l \in Llamadas |-> FALSE]
  /\ fallos = 0
  /\ escapes = 0
  /\ fallidas = << >>
  /\ liquidadas = [l \in Llamadas |-> << >>]
  /\ detenida = [l \in Llamadas |-> FALSE]
  /\ motivo = [l \in Llamadas |-> "ninguno"]
  /\ pausa_pedida = [l \in Llamadas |-> FALSE]
  /\ InitGestores

(* ----------------------------- inicializar ----------------------------- *)
\* The callers (ProcesadorBase.inicializar/ejecutar, HiloAutomatizacion.run)
\* await inicializar() and then ejecutar(): no inicializar() is started while
\* a run or another inicializar() is in flight.
vars_ejecucion == <<pc, indice, intentos_globales, resultado, fallos, escapes,
                    fallidas, liquidadas, detenida, motivo, pausa_pedida>>

\* inicializar(tareas), up to its first await (iniciar_navegador); an empty
\* list raises, and the handler runs _limpiar_recursos and returns False
\* cierra says whether every close of GestorNavegador._limpiar_recursos went
\* through: a close that raises leaves the browser as it was
InicializarCon(n, limite, cierra) ==
  /\ ini.pc = "no"
  /\ ini.hechas < limite
  /\ \A l \in Llamadas : pc[l] \notin EnCurso
  /\ IF n = 0
       THEN /\ navegador' = (navegador /\ ~cierra)
            /\ ini' = [pc |-> "no", hechas |-> ini.hechas + 1,
                       resultado |-> "fallo"]
            /\ UNCHANGED <<gestor_sesion, cola_tareas>>
       ELSE /\ gestor_sesion' = inicializar_estado(gestor_sesion, n)
            /\ cola_tareas' = [i \in 1..n |-> 0]
            /\ ini' = [pc |-> "navegador", hechas |-> ini.hechas + 1,
                       resultado |-> "ninguno"]
            /\ UNCHANGED navegador
  /\ UNCHANGED <<ejecutando, historial_reintentos, servicios, vars_ejecucion>>
  /\ UNCHANGED vars_gestores

Inicializar(n) == InicializarCon(n, MaxInicializaciones, TRUE)

\* the handler of inicializar: _limpiar_recursos, return False
InicializarFallaCon(abierto, cierra) ==
  /\ navegador' = (abierto /\ ~cierra)
  /\ ini' = [ini EXCEPT !.pc = "no", !.resultado = "fallo"]

InicializarFalla == InicializarFallaCon(navegador, TRUE)

\* iniciar_navegador answered; then the services are built and ir_a_login
\* is awaited.  A failed start may have got as far as launching the browser
\* (lanzado) before its own _limpiar_recursos and the handler's ran.
InicializarNavegadorCon(ok, lanzado, cierra) ==
  /\ ini.pc = "navegador"
  /\ IF ok
       THEN /\ navegador' = TRUE
            /\ servicios' = TRUE
            /\ ini' = [ini EXCEPT !.pc = "ir_login"]
       ELSE /\ InicializarFallaCon(navegador \/ lanzado, cierra)
            /\ UNCHANGED servicios
  /\ UNCHANGED <<ejecutando, cola_tareas, gestor_sesion, historial_reintentos,
                 vars_ejecucion>>
  /\ UNCHANGED vars_gestores

InicializarNavegador(ok) == InicializarNavegadorCon(ok, FALSE, TRUE)

\* ir_a_login answered (it cannot succeed on a closed browser)
InicializarIrLoginCon(ok, cierra) ==
  /\ ini.pc = "ir_login"
  /\ ok => navegador
  /\ IF ok
       THEN ini' = [ini EXCEPT !.pc = "login"] /\ UNCHANGED navegador
       ELSE InicializarFallaCon(navegador, cierra)
  /\ UNCHANGED <<ejecutando, cola_tareas, gestor_sesion, historial_reintentos,
                 servicios, vars_ejecucion>>
  /\ UNCHANGED vars_gestores

InicializarIrLogin(ok) == InicializarIrLoginCon(ok, TRUE)

\* ejecutar_login_completo answered
InicializarLoginCon(ok, cierra) ==
  /\ ini.pc = "login"
  /\ ok => navegador
  /\ IF ok
       THEN /\ ini' = [ini EXCEPT !.pc = "no", !.resultado = "ok"]
            /\ UNCHANGED navegador
       ELSE InicializarFallaCon(navegador, cierra)
  /\ UNCHANGED <<ejecutando, cola_tareas, gestor_sesion, historial_reintentos,
                 servicios, vars_ejecucion>>
  /\ UNCHANGED vars_gestores

InicializarLogin(ok) == InicializarLoginCon(ok, TRUE)

(* ------------------------------ ejecutar -------------------------------- *)
\* ejecutar() returns: `return True` after _ejecutar_con_recuperacion, or
\* `return False`; the finally clause clears self.ejecutando in both cases
Retorna(l, valor, por) ==
  /\ pc' = [pc EXCEPT ![l] = "fin"]
  /\ resultado' = [resultado EXCEPT ![l] = valor]
  /\ motivo' = [motivo EXCEPT ![l] = por]
  /\ ejecutando' = FALSE

\* The head of the while loop of _procesar_tareas with the local indice idx,
\* the session gs and the flag ejec: leave the loop (and ejecutar returns
\* True), wait in the pause poll, or start the task at idx.
Continuar(l, idx, gs, ejec) ==
  /\ indice' = [indice EXCEPT ![l] = idx]
  /\ IF idx > Len(cola_tareas) \/ ~ejec
       THEN Retorna(l, TRUE, IF ejec THEN "cola_terminada"
                                     ELSE "no_ejecutando")
       ELSE /\ pc' = [pc EXCEPT ![l] = IF gs.pausada THEN "pausa" ELSE "tarea"]
            /\ ejecutando' = ejec
            /\ UNCHANGED <<resultado, motivo>>

\* ejecutar(), up to its first await.  Calls are numbered in the order they
\* are made.
Ejecutar(l) ==
  /\ pc[l] = "libre"
  /\ \A k \in 1..(l - 1) : pc[k] # "libre"
  /\ ini.pc = "no"
  /\ IF ejecutando
       THEN \* rejected by the guard
            /\ Retorna(l, FALSE, "rechazada")
            /\ UNCHANGED <<gestor_sesion, indice>>
       ELSE IF ~gestor_sesion.estado.existe
       THEN \* iniciar_sesion raises "Estado no inicializado"
            /\ Retorna(l, FALSE, "sin_estado")
            /\ UNCHANGED <<gestor_sesion, indice>>
       ELSE /\ gestor_sesion' = iniciar_sesion(gestor_sesion)
            /\ IF cola_tareas = << >>
                 THEN /\ Retorna(l, TRUE, "cola_terminada")
                      /\ UNCHANGED indice
                 ELSE Continuar(l, 1, gestor_sesion', TRUE)
  /\ UNCHANGED <<cola_tareas, historial_reintentos, navegador, servicios, ini,
                 intentos_globales, fallos, fallidas, escapes, liquidadas, detenida,
                 pausa_pedida>>
  /\ UNCHANGED vars_gestores

\* The pause poll wakes up and finds the session resumed or the run stopped.
Sondeo(l) ==
  /\ pc[l] = "pausa"
  /\ ~(gestor_sesion.pausada /\ ejecutando)
  /\ IF ~ejecutando
       THEN Retorna(l, TRUE, "no_ejecutando")
       ELSE /\ pc' = [pc EXCEPT ![l] = "tarea"]
            /\ UNCHANGED <<ejecutando, resultado, motivo>>
  /\ UNCHANGED <<cola_tareas, gestor_sesion, historial_reintentos, navegador,
                 servicios, ini, indice, intentos_globales, fallos, fallidas, escapes,
                 liquidadas, detenida, pausa_pedida>>
  /\ UNCHANGED vars_gestores

\* The task in flight completes: actualizar_progreso(True), indice += 1.
TareaCompletada(l) ==
  /\ pc[l] = "tarea"
  /\ gestor_sesion' = actualizar_progreso(gestor_sesion, TRUE)
  /\ liquidadas' = [liquidadas EXCEPT ![l] = Append(@, indice[l])]
  /\ Continuar(l, indice[l] + 1, gestor_sesion', ejecutando)
  /\ UNCHANGED <<cola_tareas, historial_reintentos, navegador, servicios, ini,
                 intentos_globales, fallos, fallidas, escapes, detenida, pausa_pedida>>
  /\ UNCHANGED vars_gestores

\* The task in flight raises error (at most limite failures are raised in a
\* behaviour): the handler of _procesar_tareas classifies
\* it and either retries the task in place or counts it failed and skips it.
TareaFallaHasta(l, error, limite) ==
  /\ pc[l] = "tarea"
  /\ fallos < limite
  /\ fallos' = fallos + 1
  /\ fallidas' = Append(fallidas, <<l, indice[l], clasificar(error)>>)
  /\ LET tipo_error == clasificar(error)
         tarea == indice[l]
     IN IF puede_reintentar(tipo_error, cola_tareas[tarea])
          THEN /\ historial_reintentos' =
                    registrar_intento(historial_reintentos, tipo_error,
                                      cola_tareas[tarea])
               /\ cola_tareas' = [cola_tareas EXCEPT ![tarea] = @ + 1]
               /\ Continuar(l, tarea, gestor_sesion, ejecutando)
               /\ UNCHANGED <<gestor_sesion, liquidadas>>
          ELSE /\ gestor_sesion' = actualizar_progreso(gestor_sesion, FALSE)
               /\ liquidadas' = [liquidadas EXCEPT ![l] = Append(@, tarea)]
               /\ Continuar(l, tarea + 1, gestor_sesion', ejecutando)
               /\ UNCHANGED <<cola_tareas, historial_reintentos>>
  /\ UNCHANGED <<navegador, servicios, ini, intentos_globales, escapes,
                 detenida, pausa_pedida>>
  /\ UNCHANGED vars_gestores

TareaFalla(l, error) == TareaFallaHasta(l, error, MaxFallos)

\* _recuperar_sistema returned False: `break`, and ejecutar returns True
RecuperacionFallida(l) == Retorna(l, TRUE, "recuperacion_fallida")

\* An exception leaves _procesar_tareas.  The handler of the task loop catches
\* every Exception a task raises, so only a statement of that handler (its
\* first one, the log call) can let one through: nothing of the failed task
\* has been recorded yet.  The handler of _ejecutar_con_recuperacion counts
\* the attempt and either gives up (detener_sesion, break) or starts the
\* recovery: iniciar_recuperacion, then _recuperar_sistema closes the browser
\* and sleeps.
TareaEscapa(l, limite) ==
  /\ pc[l] = "tarea"
  /\ escapes < limite
  /\ escapes' = escapes + 1
  /\ intentos_globales' = [intentos_globales EXCEPT ![l] = @ + 1]
  /\ IF intentos_globales'[l] >= max_intentos_globales
       THEN /\ gestor_sesion' = detener_sesion(gestor_sesion)
            /\ Retorna(l, TRUE, "max_intentos")
            /\ UNCHANGED navegador
       ELSE /\ gestor_sesion' = iniciar_recuperacion(gestor_sesion)
            /\ navegador' = FALSE
            /\ pc' = [pc EXCEPT ![l] = "rec_espera"]
            /\ UNCHANGED <<ejecutando, resultado, motivo>>
  /\ UNCHANGED <<cola_tareas, historial_reintentos, servicios, ini, indice,
                 fallos, fallidas, liquidadas, detenida, pausa_pedida>>
  /\ UNCHANGED vars_gestores

\* _recuperar_sistema: the sleep is over, iniciar_navegador is awaited
RecDespierta(l) ==
  /\ pc[l] = "rec_espera"
  /\ pc' = [pc EXCEPT ![l] = "rec_navegador"]
  /\ UNCHANGED <<ejecutando, cola_tareas, gestor_sesion, historial_reintentos,
                 navegador, servicios, ini, indice, intentos_globales,
                 resultado, fallos, fallidas, escapes, liquidadas, detenida, motivo,
                 pausa_pedida>>
  /\ UNCHANGED vars_gestores

\* iniciar_navegador answered; ir_a_login is awaited next (an AttributeError
\* on a controller whose services were never built, caught: return False)
RecNavegador(l, ok) ==
  /\ pc[l] = "rec_navegador"
  /\ navegador' = ok
  /\ IF ok /\ servicios
       THEN /\ pc' = [pc EXCEPT ![l] = "rec_ir_login"]
            /\ UNCHANGED <<ejecutando, resultado, motivo>>
       ELSE RecuperacionFallida(l)
  /\ UNCHANGED <<cola_tareas, gestor_sesion, historial_reintentos, servicios,
                 ini, indice, intentos_globales, fallos, fallidas, escapes, liquidadas,
                 detenida, pausa_pedida>>
  /\ UNCHANGED vars_gestores

\* ir_a_login answered; ejecutar_login_completo is awaited next
RecIrLogin(l, ok) ==
  /\ pc[l] = "rec_ir_login"
  /\ ok => navegador
  /\ IF ok
       THEN /\ pc' = [pc EXCEPT ![l] = "rec_login"]
            /\ UNCHANGED <<ejecutando, resultado, motivo>>
       ELSE RecuperacionFallida(l)
  /\ UNCHANGED <<cola_tareas, gestor_sesion, historial_reintentos, navegador,
                 servicios, ini, indice, intentos_globales, fallos, fallidas, escapes,
                 liquidadas, detenida, pausa_pedida>>
  /\ UNCHANGED vars_gestores

\* ejecutar_login_completo answered: on success recuperacion_exitosa, and the
\* while loop of _ejecutar_con_recuperacion calls _procesar_tareas again,
\* which starts with indice = 0
RecLogin(l, ok) ==
  /\ pc[l] = "rec_login"
  /\ ok => navegador
  /\ IF ok
       THEN /\ gestor_sesion' = recuperacion_exitosa(gestor_sesion)
            /\ Continuar(l, 1, gestor_sesion', ejecutando)
       ELSE /\ RecuperacionFallida(l)
            /\ UNCHANGED <<gestor_sesion, indice>>
  /\ UNCHANGED <<cola_tareas, historial_reintentos, navegador, servicios, ini,
                 intentos_globales, fallos, fallidas, escapes, liquidadas, detenida,
                 pausa_pedida>>
  /\ UNCHANGED vars_gestores

(* ----------------------- pausar, reanudar, detener ---------------------- *)
Pausar ==
  /\ gestor_sesion' = pausar_sesion(gestor_sesion)
  /\ pausa_pedida' = [l \in Llamadas |->
                        pausa_pedida[l] \/ (pc[l] = "tarea" /\ ~detenida[l])]
  /\ UNCHANGED <<ejecutando, cola_tareas, historial_reintentos, navegador,
                 servicios, ini, pc, indice, intentos_globales, resultado,
                 fallos, fallidas, escapes, liquidadas, detenida, motivo>>
  /\ UNCHANGED vars_gestores

Reanudar ==
  /\ gestor_sesion' = reanudar_sesion(gestor_sesion)
  /\ pausa_pedida' = [l \in Llamadas |-> FALSE]
  /\ UNCHANGED <<ejecutando, cola_tareas, historial_reintentos, navegador,
                 servicios, ini, pc, indice, intentos_globales, resultado,
                 fallos, fallidas, escapes, liquidadas, detenida, motivo>>
  /\ UNCHANGED vars_gestores

\* detener: task_principal is never assigned, so nothing is cancelled;
\* _limpiar_recursos closes the browser
Detener ==
  /\ ejecutando' = FALSE
  /\ gestor_sesion' = detener_sesion(gestor_sesion)
  /\ navegador' = FALSE
  /\ detenida' = [l \in Llamadas |-> detenida[l] \/ pc[l] \in EnCurso]
  /\ pausa_pedida' = [l \in Llamadas |-> FALSE]
  /\ UNCHANGED <<cola_tareas, historial_reintentos, servicios, ini, pc, indice,
                 intentos_globales, resultado, fallos, fallidas, escapes, liquidadas,
                 motivo>>
  /\ UNCHANGED vars_gestores

(* ------------------- a GestorReintentos on its own ---------------------- *)
\* datetime.now() advances; two calls made before it does read the same value
Tic(limite) ==
  /\ reloj < limite
  /\ reloj' = reloj + 1
  /\ UNCHANGED <<historiales, retorno, vars_politica, recuperacion,
                 vars_principal, vars_controlador, vars_componentes>>

\* puede_reintentar(tipo, intento, contexto)
PuedeReintentar(tipo, intento, contexto) ==
  LET puede == puede_reintentar(tipo, intento)
  IN /\ historiales' =
          IF puede
            THEN registrar_intento_en(historiales, contexto, tipo, intento,
                                      reloj)
            ELSE historiales
     /\ retorno' = [op |-> "puede_reintentar", tipo |-> tipo,
                    intento |-> intento, contexto |-> contexto,
                    valor |-> puede]
     /\ UNCHANGED <<reloj, vars_politica, recuperacion, vars_principal,
                    vars_controlador, vars_componentes>>

\* debe_abortar(contexto), with the default window
DebeAbortar(contexto) ==
  /\ retorno' = [op |-> "debe_abortar", contexto |-> contexto,
                 valor |-> debe_abortar(historiales, contexto, reloj,
                                        ventana_tiempo_minutos)]
  /\ UNCHANGED <<reloj, historiales, vars_politica, recuperacion,
                 vars_principal, vars_controlador, vars_componentes>>

\* the retry policy is asked about one kind and attempt number:
\* puede_reintentar's answer and calcular_tiempo_espera's
Consultar(tipo, intento) ==
  /\ previa' = ultima
  /\ ultima' = [op |-> "consulta", tipo |-> tipo, intento |-> intento,
                puede |-> puede_reintentar(tipo, intento),
                espera |-> calcular_tiempo_espera(tipo, intento)]
  /\ UNCHANGED <<vars_reintentos, recuperacion, vars_principal,
                 vars_controlador, vars_componentes>>

(* ------------------- the GestorNavegador objects ------------------------ *)
\* origen creates GestorNavegador(contexto)
CrearGestorNavegador(origen, contexto) ==
  /\ Len(navegadores_creados) < MaxGestores
  /\ navegadores_creados' =
       Append(navegadores_creados,
              [origen |-> origen, gestor |-> nuevo_gestor_navegador(contexto)])
  /\ UNCHANGED <<vars_reintentos, vars_politica, recuperacion, vars_principal,
                 vars_controlador, vars_navegador, clasificacion,
                 procesadores, reinicio>>

(* -------------------- a ProcesadorBase on its own ------------------------ *)

\* ProcesadorBase.inicializar(): with data and a controller that initializes,
\* the controller holds a session and a queue of at least one task; otherwise
\* the exception is caught and nothing else changes.
ProcesadorInicializar(c, ok) ==
  /\ ~procesadores[c].inicializado
  /\ \A k \in LlamadasProcesador : procesadores[c].pc[k] # "controlador"
  /\ procesadores' = [procesadores EXCEPT ![c].inicializado = ok]
  /\ UNCHANGED <<vars_reintentos, vars_politica, recuperacion, vars_principal,
                 vars_controlador, navegadores_creados, vars_navegador,
                 clasificacion, reinicio>>

\* ProcesadorBase.ejecutar(), up to the first await that suspends.  The guard
\* is inside the try block whose finally clause clears self.ejecutando; the
\* controller's ejecutar() has the same shape, and a call it rejects returns
\* without suspending.  Calls are numbered in the order they are made.
ProcesadorEjecutar(c, k) ==
  LET p == procesadores[c]
      devuelve(valor, ctl) ==
        [p EXCEPT !.ejecutando = FALSE,
                  !.controlador_ejecutando = ctl,
                  !.pc[k] = "fin",
                  !.resultado[k] = valor]
  IN  /\ p.pc[k] = "libre"
      /\ \A j \in 1..(k - 1) : p.pc[j] # "libre"
      /\ procesadores' =
           [procesadores EXCEPT ![c] =
              IF p.ejecutando
                THEN \* rejected by the processor's guard
                     devuelve("False", p.controlador_ejecutando)
              ELSE IF p.controlador_ejecutando \/ ~p.inicializado
                THEN \* controlador.ejecutar() rejects the call or fails to
                     \* start the session, and its finally clause runs
                     devuelve("False", FALSE)
              ELSE [p EXCEPT !.ejecutando = TRUE,
                             !.controlador_ejecutando = TRUE,
                             !.pc[k] = "controlador"]]
      /\ UNCHANGED <<vars_reintentos, vars_politica, recuperacion,
                     vars_principal, vars_controlador, navegadores_creados,
                     vars_navegador, clasificacion, reinicio>>

\* The controller's run of call k returns exito, and the finally clauses of
\* both ejecutar() methods run.
ProcesadorTermina(c, k, exito) ==
  LET p == procesadores[c]
  IN  /\ p.pc[k] = "controlador"
      /\ procesadores' =
           [procesadores EXCEPT ![c] =
              [p EXCEPT !.ejecutando = FALSE,
                        !.controlador_ejecutando = FALSE,
                        !.pc[k] = "fin",
                        !.resultado[k] = IF exito THEN "True" ELSE "False"]]
      /\ UNCHANGED <<vars_reintentos, vars_politica, recuperacion,
                     vars_principal, vars_controlador, navegadores_creados,
                     vars_navegador, clasificacion, reinicio>>

(* ----------------- a ClasificadorErrores on its own --------------------- *)
\* the messages classified: a text around the word timeout, the word with up
\* to MaxMayusculas of its letters (or all of them) in upper case, the text
\* around it as written or all in upper case
Palabra == <<"t", "i", "m", "e", "o", "u", "t">>

Prefijos ==
  { <<>>,
    <<"i", "n", "v", "a", "l", "i", "d", " ", "s", "e", "s", "s",
    "i", "o", "n", " ">>,
    <<"C", "o", "n", "n", "e", "c", "t", "i", "o", "n", " ">>,
    <<"S", "e", "s", "s", "i", "o", "n", " ">> }

Sufijos ==
  { <<>>,
    <<" ", "(", "5", "0", "0", ")">>,
    <<":", " ", "e", "l", "e", "m", "e", "n", "t", " ", "n", "o",
    "t", " ", "f", "o", "u", "n", "d">> }

TiposExcepcion == {"Exception", "TimeoutError", "DisconnectedError"}

a_mayuscula ==
  [c \in {Minusculas[i] : i \in 1..Len(Minusculas)} |->
     Mayusculas[CHOOSE i \in 1..Len(Minusculas) : Minusculas[i] = c]]

mayuscula(c) == IF c \in DOMAIN a_mayuscula THEN a_mayuscula[c] ELSE c

Capitalizaciones ==
  {m \in SUBSET (1..Len(Palabra)) :
     Cardinality(m) <= MaxMayusculas \/ m = 1..Len(Palabra)}

Mensaje(prefijo, m, sufijo, gritado) ==
  LET palabra == [i \in 1..Len(Palabra) |->
                    IF i \in m THEN mayuscula(Palabra[i]) ELSE Palabra[i]]
      alrededor(texto) ==
        IF gritado THEN [i \in 1..Len(texto) |-> mayuscula(texto[i])]
                   ELSE texto
  IN alrededor(prefijo) \o palabra \o alrededor(sufijo)

\* clasificar(error); the calls of one behaviour classify one error under
\* several capitalizations of its message
Clasificar(prefijo, m, sufijo, gritado, tipo_exc) ==
  LET mensaje == Mensaje(prefijo, m, sufijo, gritado)
  IN /\ \/ clasificacion.tipo = "ninguno"
        \/ /\ tipo_exc = clasificacion.tipo_exc
           /\ Len(prefijo) + Len(Palabra) + Len(sufijo)
                = Len(clasificacion.mensaje)
           /\ minusculas(mensaje) = minusculas(clasificacion.mensaje)
     /\ clasificacion' = [mensaje |-> mensaje, tipo_exc |-> tipo_exc,
                          tipo |-> clasificar_mensaje(mensaje, tipo_exc),
                          previa |-> clasificacion.tipo,
                          str_lanza |-> FALSE]
     /\ UNCHANGED <<vars_reintentos, vars_politica, recuperacion,
                    vars_principal, vars_controlador, navegadores_creados,
                    vars_navegador, procesadores, reinicio>>

\* more messages: with no pattern, with one, with several
OtrosMensajes ==
  { <<>>,
    <<"b", "o", "o", "m">>,
    <<"L", "o", "g", "i", "n", " ", "F", "a", "i", "l", "e", "d",
    " ", "(", "4", "0", "4", ")">>,
    <<"p", "a", "g", "e", " ", "n", "o", "t", " ", "f", "o", "u",
    "n", "d", ":", " ", "n", "o", " ", "s", "u", "c", "h", " ", "e",
    "l", "e", "m", "e", "n", "t">>,
    <<"N", "A", "V", "I", "G", "A", "T", "I", "O", "N", " ", "t",
    "o", " ", "C", "a", "p", "t", "c", "h", "a">>,
    <<"a", "p", "i", " ", "e", "r", "r", "o", "r", ",", " ", "d",
    "i", "s", "c", "o", "n", "n", "e", "c", "t", "e", "d">>,
    <<"T", "i", "m", "e", "d", " ", "o", "u", "t", " ", "w", "a",
    "i", "t", "i", "n", "g">>,
    <<"C", "o", "n", "n", "e", "c", "t", "i", "o", "n", " ", "T",
    "i", "m", "e", "o", "u", "t">>,
    <<"c", "o", "n", "n", "e", "c", "t", "i", "o", "n", " ", "t",
    "i", "m", "e", "o", "u", "t">> }

OtrosTipos ==
  {"Exception", "ValueError", "ConnectionError", "NoSuchElementException",
   "WebDriverException", "DisconnectedError", "TimeoutError"}

\* clasificar(error) on any of these errors
ClasificarOtro(mensaje, tipo_exc) ==
  /\ clasificacion' = [mensaje |-> mensaje, tipo_exc |-> tipo_exc,
                       tipo |-> clasificar_mensaje(mensaje, tipo_exc),
                       previa |-> clasificacion.tipo,
                       str_lanza |-> FALSE]
  /\ UNCHANGED <<vars_reintentos, vars_politica, recuperacion,
                 vars_principal, vars_controlador, navegadores_creados,
                 vars_navegador, procesadores, reinicio>>

\* clasificar(error) on an exception whose __str__ raises: the handler of
\* clasificar returns ERROR_DESCONOCIDO
ClasificarSinMensaje(tipo_exc) ==
  /\ clasificacion' = [mensaje |-> << >>, tipo_exc |-> tipo_exc,
                       tipo |-> "error_desconocido",
                       previa |-> clasificacion.tipo,
                       str_lanza |-> TRUE]
  /\ UNCHANGED <<vars_reintentos, vars_politica, recuperacion,
                 vars_principal, vars_controlador, navegadores_creados,
                 vars_navegador, procesadores, reinicio>>

(* --------------------- a GestorNavegador on its own --------------------- *)
\* iniciar_navegador() on the GestorNavegador of context c
IniciarNavegador(c, hasta, falla) ==
  /\ recursos_navegador' =
       [recursos_navegador EXCEPT
          ![c] = iniciar_navegador(recursos_navegador[c], hasta, falla)]
  /\ limpieza' = [limpieza EXCEPT ![c] = sin_limpieza]
  /\ UNCHANGED <<vars_reintentos, vars_politica, recuperacion, vars_principal,
                 vars_controlador, navegadores_creados, clasificacion,
                 procesadores, reinicio>>

\* The teardown, ControladorAutomatizacion._limpiar_recursos: it awaits
\* cerrar_navegador inside a try block of its own.  The calls made in a row
\* are counted up to the second.
LimpiarRecursos(c, falla) ==
  /\ limpieza[c].seguidas < 2
  /\ recursos_navegador' =
       [recursos_navegador EXCEPT
          ![c] = cerrar_navegador(recursos_navegador[c], falla)]
  /\ limpieza' =
       [limpieza EXCEPT
          ![c] = [seguidas |-> limpieza[c].seguidas + 1,
                  tras_primera |-> IF limpieza[c].seguidas = 0
                                     THEN recursos_navegador'[c]
                                     ELSE limpieza[c].tras_primera,
                  lanzo |-> FALSE]]
  /\ UNCHANGED <<vars_reintentos, vars_politica, recuperacion, vars_principal,
                 vars_controlador, navegadores_creados, clasificacion,
                 procesadores, reinicio>>

(* ------------------------ a ServicioRecuperacion ------------------------ *)
\* recuperar(error, intento), the collaborators answering r
Recuperar(error, intento, r) ==
  /\ recuperacion' = recuperar(error, intento, r)
  /\ UNCHANGED <<vars_reintentos, vars_politica, vars_principal,
                 vars_controlador, vars_componentes>>

\* recuperar(error, intento) is called: the error is classified, the
\* strategy picked and the wait computed; with a wait above 0 the call
\* suspends in asyncio.sleep(tiempo_espera), otherwise it goes on to
\* _ejecutar_estrategia.
RecuperarInicia(error, intento) ==
  LET tipo_error == clasificar(error)
      segundos == calcular_tiempo_espera(tipo_error, intento)
  IN  /\ reinicio.pc \in {"no", "fin"}
      /\ reinicio' =
           [pc |-> IF segundos > 0 THEN "espera" ELSE "estrategia",
            estrategia |-> obtener_estrategia_recuperacion(tipo_error),
            intento |-> intento,
            espera |-> segundos,
            traza |-> << >>,
            valor |-> FALSE]
  /\ UNCHANGED <<vars_reintentos, vars_politica, recuperacion, vars_principal,
                 vars_controlador, navegadores_creados, vars_navegador,
                 clasificacion, procesadores>>

\* asyncio.sleep(tiempo_espera) returns
RecuperarEspera ==
  /\ reinicio.pc = "espera"
  /\ reinicio' = [reinicio EXCEPT
                    !.pc = "estrategia",
                    !.traza = Append(@, [paso |-> "espera", ok |-> TRUE])]
  /\ UNCHANGED <<vars_reintentos, vars_politica, recuperacion, vars_principal,
                 vars_controlador, navegadores_creados, vars_navegador,
                 clasificacion, procesadores>>

\* _ejecutar_estrategia: the method of the strategy is called.
\* _reiniciar_navegador_completo runs up to cerrar_navegador; the other
\* methods are run to their end, the collaborators answering r.
EjecutarEstrategia(r) ==
  /\ reinicio.pc = "estrategia"
  /\ reinicio' =
       IF reinicio.estrategia = "reiniciar_navegador_completo"
         THEN [reinicio EXCEPT
                 !.pc = "cerrar_navegador",
                 !.traza = Append(@, [paso |-> "estrategia", ok |-> TRUE])]
         ELSE [reinicio EXCEPT
                 !.pc = "fin",
                 !.traza = Append(@, [paso |-> "estrategia", ok |-> TRUE]),
                 !.valor = ejecutar_estrategia(reinicio.estrategia, r)]
  /\ UNCHANGED <<vars_reintentos, vars_politica, recuperacion, vars_principal,
                 vars_controlador, navegadores_creados, vars_navegador,
                 clasificacion, procesadores>>

\* _reiniciar_navegador_completo: cerrar_navegador() returns (it catches what
\* the teardown raises; limpio says whether the teardown went through), and
\* the method suspends in asyncio.sleep(2)
ReiniciarCerrar(limpio) ==
  /\ reinicio.pc = "cerrar_navegador"
  /\ reinicio' = [reinicio EXCEPT
                    !.pc = "pausa",
                    !.traza = Append(@, [paso |-> "cerrar_navegador",
                                         ok |-> limpio])]
  /\ UNCHANGED <<vars_reintentos, vars_politica, recuperacion, vars_principal,
                 vars_controlador, navegadores_creados, vars_navegador,
                 clasificacion, procesadores>>

\* asyncio.sleep(2) returns
ReiniciarPausa ==
  /\ reinicio.pc = "pausa"
  /\ reinicio' = [reinicio EXCEPT !.pc = "iniciar_navegador"]
  /\ UNCHANGED <<vars_reintentos, vars_politica, recuperacion, vars_principal,
                 vars_controlador, navegadores_creados, vars_navegador,
                 clasificacion, procesadores>>

\* the steps of _reiniciar_navegador_completo after the close, in order
siguiente_paso(paso) ==
  CASE paso = "iniciar_navegador" -> "ir_a_login"
    [] paso = "ir_a_login" -> "ejecutar_login_completo"
    [] OTHER -> "fin"

\* the step going on to the next one whatever it answered
ReiniciarPasoSinParar(ok) ==
  /\ reinicio.pc \in {"iniciar_navegador", "ir_a_login",
                      "ejecutar_login_completo"}
  /\ reinicio' = [reinicio EXCEPT
                    !.pc = siguiente_paso(reinicio.pc),
                    !.traza = Append(@, [paso |-> reinicio.pc, ok |-> ok]),
                    !.valor = ok]
  /\ UNCHANGED <<vars_reintentos, vars_politica, recuperacion, vars_principal,
                 vars_controlador, navegadores_creados, vars_navegador,
                 clasificacion, procesadores>>

\* _reiniciar_navegador_completo: iniciar_navegador(), ir_a_login() or
\* ejecutar_login_completo() answers ok (FALSE: it returned a false value or
\* raised).  A false answer raises into the handler, which returns False;
\* after the login True is returned.
ReiniciarPaso(ok) ==
  /\ reinicio.pc \in {"iniciar_navegador", "ir_a_login",
                      "ejecutar_login_completo"}
  /\ reinicio' = [reinicio EXCEPT
                    !.pc = IF ok THEN siguiente_paso(reinicio.pc) ELSE "fin",
                    !.traza = Append(@, [paso |-> reinicio.pc, ok |-> ok]),
                    !.valor = ok /\ siguiente_paso(reinicio.pc) = "fin"]
  /\ UNCHANGED <<vars_reintentos, vars_politica, recuperacion, vars_principal,
                 vars_controlador, navegadores_creados, vars_navegador,
                 clasificacion, procesadores>>

(* ----------------- controlador_automatizacion_principal.py -------------- *)
\* ejecutar_automatizacion_dual is called: asyncio.gather starts one task
\* per context
DualInicia ==
  /\ dual.pc \in {"no", "fin"}
  /\ dual' = [pc |-> "esperando",
              ramas |-> [c \in Contextos |->
                           ResultadoAutomatizacion(FALSE, "pendiente")]]
  /\ UNCHANGED <<proceso_activo, gestores_navegador, detencion,
                 vars_reintentos, vars_politica, recuperacion,
                 vars_controlador, vars_componentes>>

\* ejecutar_automatizacion_<c> with the branch sharing one navigator slot:
\* the GestorNavegador it builds is assigned for both contexts
EjecutarAutomatizacionUnNavegador(c) ==
  /\ dual.pc = "esperando"
  /\ dual.ramas[c].mensaje = "pendiente"
  /\ gestores_navegador' = [o \in Contextos |-> TRUE]
  /\ proceso_activo' = [proceso_activo EXCEPT ![c] = FALSE]
  /\ dual' = [dual EXCEPT !.ramas[c] =
                ResultadoAutomatizacion(FALSE, "error_critico")]
  /\ UNCHANGED <<detencion, vars_reintentos, vars_politica, recuperacion,
                 vars_controlador, vars_componentes>>

\* The task of context c runs ejecutar_automatizacion_<c>.  It is rejected
\* when the context's flag is set.  Otherwise the flag is set and, no
\* processor being there, inicializar_automatizacion_<c> runs: it builds and
\* assigns GestorNavegador(c) and then calls its method inicializar, which
\* GestorNavegador does not have; the AttributeError makes it return False,
\* and ejecutar_automatizacion_<c> returns the result "Error crítico".
\* Nothing is awaited on the way, and the finally clause clears the flag.
EjecutarAutomatizacion(c) ==
  /\ dual.pc = "esperando"
  /\ dual.ramas[c].mensaje = "pendiente"
  /\ IF proceso_activo[c]
       THEN /\ dual' = [dual EXCEPT !.ramas[c] =
                         ResultadoAutomatizacion(FALSE, "ya_en_ejecucion")]
            /\ UNCHANGED gestores_navegador
       ELSE /\ gestores_navegador' = [gestores_navegador EXCEPT ![c] = TRUE]
            /\ dual' = [dual EXCEPT !.ramas[c] =
                         ResultadoAutomatizacion(FALSE, "error_critico")]
  /\ proceso_activo' = [proceso_activo EXCEPT ![c] = FALSE]
  /\ UNCHANGED <<detencion, vars_reintentos, vars_politica, recuperacion,
                 vars_controlador, vars_componentes>>

\* Both tasks are done: gather returns their results, the final log is
\* written and the dictionary is returned.  The log of two successes uses the
\* level "success", which the logger does not have: the AttributeError is
\* caught and both results become "Error dual".
DualTermina ==
  /\ dual.pc = "esperando"
  /\ \A c \in Contextos : dual.ramas[c].mensaje # "pendiente"
  /\ dual' = [pc |-> "fin",
              ramas |-> IF \A c \in Contextos : dual.ramas[c].exitoso
                          THEN [c \in Contextos |->
                                  ResultadoAutomatizacion(FALSE, "error_dual")]
                          ELSE dual.ramas]
  /\ UNCHANGED <<proceso_activo, gestores_navegador, detencion,
                 vars_reintentos, vars_politica, recuperacion,
                 vars_controlador, vars_componentes>>

\* detener_todos_los_procesos is called: asyncio.gather starts one
\* detener_proceso_<c> per context
DetenerTodosInicia ==
  /\ detencion.pc \in {"no", "fin"}
  /\ detencion' = [pc |-> "esperando",
                   ramas |-> [c \in Contextos |-> "pendiente"]]
  /\ UNCHANGED <<proceso_activo, gestores_navegador, dual, vars_reintentos,
                 vars_politica, recuperacion, vars_controlador, vars_componentes>>

\* detener_proceso with both contexts stopped inside one try block: a
\* failure while stopping one context skips what is still to be stopped
DetenerProcesoEnUnSoloTry(c, falla) ==
  /\ detencion.pc = "esperando"
  /\ detencion.ramas[c] = "pendiente"
  /\ IF falla
       THEN /\ detencion' =
                 [detencion EXCEPT !.ramas =
                    [o \in Contextos |->
                       IF o = c THEN "fallo_capturado"
                       ELSE IF detencion.ramas[o] = "pendiente"
                              THEN "omitida" ELSE detencion.ramas[o]]]
            /\ UNCHANGED proceso_activo
       ELSE /\ detencion' = [detencion EXCEPT !.ramas[c] = "detenido"]
            /\ proceso_activo' = [proceso_activo EXCEPT ![c] = FALSE]
  /\ UNCHANGED <<gestores_navegador, dual, vars_reintentos, vars_politica,
                 recuperacion, vars_controlador, vars_componentes>>

\* detener_proceso_<c>: the processor (there is none) is stopped, the
\* navigator, if there is one, is closed, and the flag is cleared.  falla: a
\* statement of the try block raises; the handler logs it and the coroutine
\* returns normally, the flag left as it was.
DetenerProceso(c, falla) ==
  /\ detencion.pc = "esperando"
  /\ detencion.ramas[c] = "pendiente"
  /\ IF falla
       THEN /\ detencion' = [detencion EXCEPT !.ramas[c] = "fallo_capturado"]
            /\ UNCHANGED proceso_activo
       ELSE /\ detencion' = [detencion EXCEPT !.ramas[c] = "detenido"]
            /\ proceso_activo' = [proceso_activo EXCEPT ![c] = FALSE]
  /\ UNCHANGED <<gestores_navegador, dual, vars_reintentos, vars_politica,
                 recuperacion, vars_controlador, vars_componentes>>

\* Both detener_proceso_<c> are done: gather(return_exceptions=True) returns
\* and detener_todos_los_procesos returns
DetenerTodosTermina ==
  /\ detencion.pc = "esperando"
  /\ \A c \in Contextos : detencion.ramas[c] # "pendiente"
  /\ detencion' = [detencion EXCEPT !.pc = "fin"]
  /\ UNCHANGED <<proceso_activo, gestores_navegador, dual, vars_reintentos,
                 vars_politica, recuperacion, vars_controlador, vars_componentes>>

(* ---------------------------- specification ----------------------------- *)
Next ==
  \/ \E n \in 0..MaxTareas : Inicializar(n)
  \/ \E ok \in BOOLEAN : InicializarNavegador(ok)
  \/ \E ok \in BOOLEAN : InicializarIrLogin(ok)
  \/ \E ok \in BOOLEAN : InicializarLogin(ok)
  \/ \E l \in Llamadas : Ejecutar(l)
  \/ \E l \in Llamadas : Sondeo(l)
  \/ \E l \in Llamadas : TareaCompletada(l)
  \/ \E l \in Llamadas, error \in ErroresTarea : TareaFalla(l, error)
  \/ \E l \in Llamadas : TareaEscapa(l, MaxEscapes)
  \/ \E l \in Llamadas : RecDespierta(l)
  \/ \E l \in Llamadas, ok \in BOOLEAN : RecNavegador(l, ok)
  \/ \E l \in Llamadas, ok \in BOOLEAN : RecIrLogin(l, ok)
  \/ \E l \in Llamadas, ok \in BOOLEAN : RecLogin(l, ok)
  \/ Pausar
  \/ Reanudar
  \/ Detener

Spec == Init /\ [][Next]_vars

\* The runs in which nobody pauses or stops and no task fails on its own:
\* tasks complete or an exception leaves the task loop, and the recoveries
\* are answered.
NextRecuperacion ==
  \/ \E n \in 1..MaxTareas : Inicializar(n)
  \/ InicializarNavegador(TRUE)
  \/ InicializarIrLogin(TRUE)
  \/ InicializarLogin(TRUE)
  \/ \E l \in Llamadas : Ejecutar(l)
  \/ \E l \in Llamadas : TareaCompletada(l)
  \/ \E l \in Llamadas : TareaEscapa(l, MaxEscapesRecuperacion)
  \/ \E l \in Llamadas : RecDespierta(l)
  \/ \E l \in Llamadas, ok \in BOOLEAN : RecNavegador(l, ok)
  \/ \E l \in Llamadas, ok \in BOOLEAN : RecIrLogin(l, ok)
  \/ \E l \in Llamadas, ok \in BOOLEAN : RecLogin(l, ok)

SpecRecuperacion == Init /\ [][NextRecuperacion]_vars

\* The runs of the scenarios: the controller is initialized with up to
\* MaxTareasEscenario tasks, nobody pauses or stops, and a task completes or
\* does not find an element.
NextEscenario ==
  \/ \E n \in 1..MaxTareasEscenario : Inicializar(n)
  \/ InicializarNavegador(TRUE)
  \/ InicializarIrLogin(TRUE)
  \/ InicializarLogin(TRUE)
  \/ \E l \in Llamadas : Ejecutar(l)
  \/ \E l \in Llamadas : TareaCompletada(l)
  \/ \E l \in Llamadas, error \in ErroresEscenario :
       TareaFallaHasta(l, error, MaxFallos)

SpecEscenario == Init /\ [][NextEscenario]_vars

\* The runs with many retries: as above, and the network times out up to
\* MaxFallosCortacircuito times.
NextCortacircuito ==
  \/ \E n \in 1..MaxTareasEscenario : Inicializar(n)
  \/ InicializarNavegador(TRUE)
  \/ InicializarIrLogin(TRUE)
  \/ InicializarLogin(TRUE)
  \/ \E l \in Llamadas : Ejecutar(l)
  \/ \E l \in Llamadas : TareaCompletada(l)
  \/ \E l \in Llamadas, error \in ErroresCortacircuito :
       TareaFallaHasta(l, error, MaxFallosCortacircuito)

SpecCortacircuito == Init /\ [][NextCortacircuito]_vars

\* A GestorReintentos called for two contexts, with kinds of small budget
TiposReintentos == {"credenciales_invalidas", "captcha_fallido"}

NextReintentos ==
  \/ Tic(MaxReloj)
  \/ \E tipo \in TiposReintentos, intento \in 0..2, contexto \in Contextos :
       PuedeReintentar(tipo, intento, contexto)
  \/ \E contexto \in Contextos : DebeAbortar(contexto)

SpecReintentos == Init /\ [][NextReintentos]_vars

\* A GestorReintentos called many times for one context: network timeouts at
\* their first and at their third attempt
NextAbortar ==
  \/ Tic(MaxRelojAbortar)
  \/ \E intento \in {0, 2} : PuedeReintentar("timeout_red", intento, "pacientes")
  \/ DebeAbortar("pacientes")

SpecAbortar == Init /\ [][NextAbortar]_vars

\* The attempt numbers asked: the small ones, and those around the exponents
\* at which the powers of 1.5 and 1.2 leave the doubles
Intentos == 0..MaxIntento \cup {1751, 1752, 3894, 3895}

NextPolitica == \E tipo \in TipoError, intento \in Intentos : Consultar(tipo, intento)

SpecPolitica == Init /\ [][NextPolitica]_vars

NextServicioRecuperacion ==
  \E error \in ErroresRecuperacion, intento \in 0..MaxIntento,
     r \in [Colaboradores -> BOOLEAN] : Recuperar(error, intento, r)

SpecServicioRecuperacion == Init /\ [][NextServicioRecuperacion]_vars

\* recuperar() calls made one after the other, step by step
NextReinicio ==
  \/ \E error \in ErroresRecuperacion, intento \in 0..MaxIntento :
       RecuperarInicia(error, intento)
  \/ RecuperarEspera
  \/ \E r \in [Colaboradores -> BOOLEAN] : EjecutarEstrategia(r)
  \/ \E limpio \in BOOLEAN : ReiniciarCerrar(limpio)
  \/ ReiniciarPausa
  \/ \E ok \in BOOLEAN : ReiniciarPaso(ok)

SpecReinicio == Init /\ [][NextReinicio]_vars

NextPrincipal ==
  \/ DualInicia
  \/ \E c \in Contextos : EjecutarAutomatizacion(c)
  \/ DualTermina
  \/ DetenerTodosInicia
  \/ \E c \in Contextos, falla \in BOOLEAN : DetenerProceso(c, falla)
  \/ DetenerTodosTermina

SpecPrincipal == Init /\ [][NextPrincipal]_vars

NextNavegadores ==
  \E origen \in Origenes :
    \E contexto \in ContextosDe(origen) :
      CrearGestorNavegador(origen, contexto)

SpecNavegadores == Init /\ [][NextNavegadores]_vars

FallasDeCierre == NombresRecursos \cup {"ninguna"}

NextGestorNavegador ==
  \/ \E c \in Contextos, hasta \in 0..Len(Recursos), falla \in FallasDeCierre :
       IniciarNavegador(c, hasta, falla)
  \/ \E c \in Contextos, falla \in FallasDeCierre : LimpiarRecursos(c, falla)

SpecGestorNavegador == Init /\ [][NextGestorNavegador]_vars

\* inicializar() called again and again, every step and every close of the
\* failure handler answering either way
NextInicializar ==
  \/ \E n \in 0..MaxTareas, cierra \in BOOLEAN :
       InicializarCon(n, MaxInicializacionesSolas, cierra)
  \/ \E ok \in BOOLEAN, lanzado \in BOOLEAN, cierra \in BOOLEAN :
       InicializarNavegadorCon(ok, lanzado, cierra)
  \/ \E ok \in BOOLEAN, cierra \in BOOLEAN : InicializarIrLoginCon(ok, cierra)
  \/ \E ok \in BOOLEAN, cierra \in BOOLEAN : InicializarLoginCon(ok, cierra)

SpecInicializar == Init /\ [][NextInicializar]_vars

NextClasificar ==
  \E prefijo \in Prefijos, m \in Capitalizaciones, sufijo \in Sufijos,
     gritado \in BOOLEAN, tipo_exc \in TiposExcepcion :
    Clasificar(prefijo, m, sufijo, gritado, tipo_exc)

SpecClasificar == Init /\ [][NextClasificar]_vars

NextOrden ==
  \/ \E mensaje \in OtrosMensajes, tipo_exc \in OtrosTipos :
       ClasificarOtro(mensaje, tipo_exc)
  \/ \E tipo_exc \in OtrosTipos : ClasificarSinMensaje(tipo_exc)

SpecOrden == Init /\ [][NextOrden]_vars

\* The processors of the two contexts and the start requests of the facade.
NextProcesador ==
  \/ \E c \in Contextos, ok \in BOOLEAN : ProcesadorInicializar(c, ok)
  \/ \E c \in Contextos, k \in LlamadasProcesador : ProcesadorEjecutar(c, k)
  \/ \E c \in Contextos, k \in LlamadasProcesador, exito \in BOOLEAN :
       ProcesadorTermina(c, k, exito)
  \/ DualInicia
  \/ \E c \in Contextos : EjecutarAutomatizacion(c)
  \/ DualTermina

SpecProcesador == Init /\ [][NextProcesador]_vars

\* The runs on a queue of one task in which the task may fail on every
\* attempt and an exception may leave the task loop on every pass: the limits
\* below are never reached, the retry budgets and max_intentos_globales stop
\* the failures first.
FallosSinLimite == MaxInicializaciones * 5 + 3 * MaxLlamadas + 1

EscapesSinLimite == 3 * MaxLlamadas + 1

\* a network timeout: the kind with the largest retry budget
ErroresTerminacion == { [contiene |-> {}, tipo_exc |-> "ConnectionError"] }

\* an await of run l returns, one way or the other
PasoDeEjecucion(l) ==
  \/ Sondeo(l)
  \/ TareaCompletada(l)
  \/ \E error \in ErroresTerminacion :
       TareaFallaHasta(l, error, FallosSinLimite)
  \/ TareaEscapa(l, EscapesSinLimite)
  \/ RecDespierta(l)
  \/ \E ok \in BOOLEAN : RecNavegador(l, ok)
  \/ \E ok \in BOOLEAN : RecIrLogin(l, ok)
  \/ \E ok \in BOOLEAN : RecLogin(l, ok)

NextTerminacion ==
  \/ Inicializar(1)
  \/ InicializarNavegador(TRUE)
  \/ InicializarIrLogin(TRUE)
  \/ InicializarLogin(TRUE)
  \/ \E l \in Llamadas : Ejecutar(l)
  \/ \E l \in Llamadas : PasoDeEjecucion(l)
  \/ Pausar
  \/ Reanudar
  \/ Detener

\* the event loop resumes every coroutine whose await has returned
SpecTerminacion ==
  /\ Init
  /\ [][NextTerminacion]_vars
  /\ \A l \in Llamadas : WF_vars(PasoDeEjecucion(l))

\* runs whose tasks all complete, paused, resumed and stopped at any moment.
\* asyncio.sleep(0.5) of the pause loop returns, so a poll that can leave the
\* loop is eventually taken if it stays able to.
NextReanudar ==
  \/ \E n \in 0..MaxTareas : Inicializar(n)
  \/ InicializarNavegador(TRUE)
  \/ InicializarIrLogin(TRUE)
  \/ InicializarLogin(TRUE)
  \/ \E l \in Llamadas :
       \/ Ejecutar(l)
       \/ Sondeo(l)
       \/ TareaCompletada(l)
  \/ Pausar
  \/ Reanudar
  \/ Detener

SpecReanudar ==
  Init /\ [][NextReanudar]_vars /\ \A l \in Llamadas : WF_vars(Sondeo(l))

(* ------------------------------ properties ----------------------------- *)
\* the last inicializar() of the controller returned True
Inicializado == ini.resultado = "ok"

\* this step starts a task attempt of call l (a first attempt, the next
\* task or a retry)
IniciaIntento(l) ==
  /\ pc'[l] = "tarea"
  /\ \/ Ejecutar(l)
     \/ Sondeo(l)
     \/ TareaCompletada(l)
     \/ \E error \in ErroresTarea : TareaFalla(l, error)
     \/ RecLogin(l, TRUE)

\* the run of call l ended as a definitive failure: a recovery failed, or
\* the third exception left the task loop
FalloDefinitivo(l) == motivo[l] \in {"recuperacion_fallida", "max_intentos"}

\* C1: single-flight execute on an initialized controller: at most one
\* ejecutar() run is past the guard and processing at any time, and a call
\* made while a run is in progress returns False.
C1_UnaSolaEjecucion ==
  [][Inicializado =>
       /\ Cardinality({l \in Llamadas : pc'[l] \in EnCurso}) <= 1
       /\ \A l \in Llamadas :
            (pc[l] = "libre" /\ pc'[l] # "libre"
               /\ \E k \in Llamadas : pc[k] \in EnCurso)
            => (pc'[l] = "fin" /\ resultado'[l] = FALSE)]_vars

\* C2: after pausar() came while a task of a run was in flight, that run
\* starts no task attempt (next task or retry) until reanudar() or detener()
\* is called.
C2_PausaDetieneIntentos ==
  [][Inicializado =>
       \A l \in Llamadas : pausa_pedida[l] => ~IniciaIntento(l)]_vars

\* C3: after detener() was called during a run, that run starts no further
\* task attempt.
C3_DetenerDetieneIntentos ==
  [][Inicializado =>
       \A l \in Llamadas : detenida[l] => ~IniciaIntento(l)]_vars

C5_TodasLiquidadasEnOrden ==
  Inicializado =>
    \A l \in Llamadas :
      (/\ pc[l] = "fin"
       /\ motivo[l] \notin {"rechazada", "sin_estado"}
       /\ ~detenida[l]
       /\ intentos_globales[l] = 0)
      => liquidadas[l] = [i \in 1..Len(cola_tareas) |-> i]

\* C6: a task failure classified navegador_cerrado, sesion_perdida or
\* credenciales_invalidas escalates to global recovery: the recovery counter
\* is incremented and the state recuperando is entered.
C6_EscalaARecuperacion ==
  [][Inicializado =>
       \A l \in Llamadas, error \in ErroresTarea :
         (TareaFalla(l, error) /\ requiere_reinicio_completo(clasificar(error)))
         => /\ gestor_sesion'.estado.intentos_recuperacion =
                 gestor_sesion.estado.intentos_recuperacion + 1
            /\ gestor_sesion'.estado.estado = "recuperando"]_vars

\* C7: when a run ends as a definitive failure, the process state is error.
C7_FalloDefinitivoMarcaError ==
  [][Inicializado =>
       \A l \in Llamadas :
         (pc[l] # "fin" /\ pc'[l] = "fin" /\ FalloDefinitivo(l)')
         => gestor_sesion'.estado.estado = "error"]_vars

\* C8: when a run ends as a definitive failure, ejecutar() returns False.
C8_FalloDefinitivoRetornaFalse ==
  Inicializado =>
    \A l \in Llamadas :
      (pc[l] = "fin" /\ FalloDefinitivo(l)) => resultado[l] = FALSE

\* C9: a run makes at most 3 global attempts, and the recovery-attempt
\* counter of the session never exceeds max_intentos.
C9_RecuperacionAcotada ==
  Inicializado =>
    /\ \A l \in Llamadas : intentos_globales[l] <= max_intentos_globales
    /\ gestor_sesion.estado.intentos_recuperacion <= max_intentos

\* C10: after a successful recovery the run resumes at the task at which the
\* exception left the loop, and it settles no task twice.
C10_ReanudaDondeFallo ==
  [][Inicializado =>
       \A l \in Llamadas :
         /\ (pc[l] = "rec_login" /\ pc'[l] \in {"tarea", "pausa"})
              => indice'[l] = indice[l]
         /\ \A i, j \in 1..Len(liquidadas'[l]) :
              liquidadas'[l][i] = liquidadas'[l][j] => i = j]_vars

\* C11: scenario B: the first failure of a task with an error classified
\* credenciales_invalidas is refused a retry (nothing is recorded and the
\* task's retry count stays 0) and the run escalates to global recovery.
C11_CredencialesSinReintento ==
  [][Inicializado =>
       \A l \in Llamadas, error \in ErroresTarea :
         (/\ TareaFalla(l, error)
          /\ clasificar(error) = "credenciales_invalidas"
          /\ cola_tareas[indice[l]] = 0)
         => /\ cola_tareas' = cola_tareas
            /\ historial_reintentos' = historial_reintentos
            /\ gestor_sesion'.estado.estado = "recuperando"]_vars

\* the run of scenario A: the controller was initialized once, with 3 tasks,
\* one ejecutar() ran to the end of the queue, and the only failure raised
\* was one elemento_no_encontrado at the second task
EscenarioA ==
  /\ Inicializado
  /\ ini.hechas = 1
  /\ Len(cola_tareas) = 3
  /\ pc[1] = "fin" /\ motivo[1] = "cola_terminada"
  /\ \A l \in Llamadas : l # 1 => pc[l] = "libre"
  /\ fallidas = << <<1, 2, "elemento_no_encontrado">> >>

\* C12: scenario A ends with processed = 3, success = 3, failed = 0 and
\* exactly one retry recorded: retry count 1 at task 2 and 0 at the others,
\* and one record in the retry history.
C12_EscenarioA ==
  EscenarioA =>
    /\ gestor_sesion.estado.items_procesados = 3
    /\ gestor_sesion.estado.items_exitosos = 3
    /\ gestor_sesion.estado.items_fallidos = 0
    /\ cola_tareas = <<0, 1, 0>>
    /\ historial_reintentos =
         << [tipo_error |-> "elemento_no_encontrado", intentos |-> 0] >>

\* C12 witness: the run of scenario A has ended
C12_Testigo == EscenarioA /\ liquidadas[1] = <<1, 2, 3>>

\* C13: circuit breaker in the run: once more than 10 retry attempts have
\* been recorded for the controller's context (all of them inside the
\* window), no task attempt is in flight or started any more.
C13_CortacircuitoEnLaEjecucion ==
  Len(historial_reintentos) > 10 => \A l \in Llamadas : pc[l] # "tarea"

\* the number of records in the history of a context
NumRegistros(h, contexto) ==
  IF contexto \in DOMAIN h THEN Cardinality(DOMAIN h[contexto]) ELSE 0

\* the number of records of a context inside the window that ends now
RegistrosEnVentana(contexto) ==
  IF contexto \in DOMAIN historiales
    THEN Cardinality({ts \in DOMAIN historiales[contexto] :
                        ts >= reloj - ventana_tiempo_minutos})
    ELSE 0

\* C14: debe_abortar boundary: with exactly 10 retry attempts of the context
\* recorded inside the window it answers false, with 11 it answers true,
\* whatever the kinds and attempt numbers of the records.
C14_FronteraDebeAbortar ==
  retorno.op = "debe_abortar" =>
    /\ RegistrosEnVentana(retorno.contexto) = 10 => retorno.valor = FALSE
    /\ RegistrosEnVentana(retorno.contexto) = 11 => retorno.valor = TRUE

\* C15: puede_reintentar returns true iff intento < max_reintentos(tipo); a
\* call that returns true adds exactly one record (tipo, intento) to the
\* history of its context and leaves the other contexts alone; a call that
\* returns false leaves the whole history unchanged.
C15_DecisionYRegistro ==
  [][\A tipo \in TiposReintentos, intento \in 0..2, contexto \in Contextos :
       PuedeReintentar(tipo, intento, contexto) =>
         /\ retorno'.valor = (intento < max_reintentos(tipo))
         /\ IF retorno'.valor
              THEN /\ NumRegistros(historiales', contexto) =
                        NumRegistros(historiales, contexto) + 1
                   /\ \E ts \in DOMAIN historiales'[contexto] :
                        historiales'[contexto][ts] =
                          [tipo_error |-> tipo, intentos |-> intento]
                   /\ \A c \in Contextos \ {contexto} :
                        NumRegistros(historiales', c) =
                          NumRegistros(historiales, c)
              ELSE historiales' = historiales]_vars

\* C16: puede_reintentar is monotonic in the attempt number: of two calls
\* for the same kind, if the one with the larger attempt number is granted,
\* so is the one with the smaller.
C16_Monotonia ==
  (/\ previa.op = "consulta" /\ ultima.op = "consulta"
   /\ previa.tipo = ultima.tipo
   /\ previa.intento < ultima.intento
   /\ ultima.puede)
  => previa.puede

\* C16 witness: a granted attempt was asked after a smaller one of its kind
C16_Testigo ==
  /\ previa.op = "consulta" /\ ultima.op = "consulta"
  /\ previa.tipo = ultima.tipo
  /\ previa.intento < ultima.intento
  /\ ultima.puede

\* C17: calcular_tiempo_espera is 0 for an attempt number up to
\* reintentos_inmediatos, never exceeds 60, and over the larger attempt
\* numbers of a kind it is non-decreasing.
C17_EsperaAcotadaYCreciente ==
  ultima.op = "consulta" =>
    /\ ultima.intento <= reintentos_inmediatos(ultima.tipo)
         => ultima.espera = 0
    /\ ultima.espera <= 60
    /\ (/\ previa.op = "consulta"
        /\ previa.tipo = ultima.tipo
        /\ previa.intento > reintentos_inmediatos(previa.tipo)
        /\ previa.intento <= ultima.intento)
       => previa.espera <= ultima.espera

\* C18: recuperar returns false for every error classified
\* credenciales_invalidas, for every attempt number and whatever the browser,
\* navigation and login collaborators answer.
C18_CredencialesNoSeRecuperan ==
  (recuperacion.op = "recuperar"
     /\ recuperacion.tipo = "credenciales_invalidas")
  => recuperacion.valor = FALSE

\* C18 witness: recuperar was called with a credentials error at a later
\* attempt
C18_Testigo ==
  /\ recuperacion.op = "recuperar"
  /\ recuperacion.tipo = "credenciales_invalidas"
  /\ recuperacion.intento > 0

C20_DetenerTodosTolera ==
  /\ detencion.pc # "excepcion"
  /\ detencion.pc = "fin" =>
       \A c \in Contextos :
         detencion.ramas[c] \in {"detenido", "fallo_capturado"}

\* C20 witness: the call has returned, stopping pacientes having failed and
\* casos having been stopped
C20_Testigo ==
  /\ detencion.pc = "fin"
  /\ detencion.ramas["pacientes"] = "fallo_capturado"
  /\ detencion.ramas["casos"] = "detenido"

\* C21: distinct driver ports: two GestorNavegador objects created for
\* different contexts have different debugging ports, under every spelling of
\* the context names the program uses.
C21_PuertosDistintos ==
  \A i, j \in DOMAIN navegadores_creados :
    LET a == navegadores_creados[i].gestor
        b == navegadores_creados[j].gestor
    IN minusculas_contexto(a.contexto) # minusculas_contexto(b.contexto)
         => a.puerto_depuracion # b.puerto_depuracion

\* C22: task retry invariant: at every point of every run the retry count of
\* every task is at most the task's max_reintentos, whatever the task raises.
C22_ReintentosAcotados ==
  \A i \in DOMAIN cola_tareas : cola_tareas[i] <= max_reintentos_tarea

\* the terminal states of EstadoProceso
EstadosTerminales == {"completado", "error", "detenido"}

\* C23: frozen terminal state: while a run is in flight and its session is
\* in a terminal state, no step of that run changes the process state or the
\* counters (processed, success, failed, recovery attempts); in particular
\* the task that was in flight when detener() was called changes nothing
\* when it finishes.
C23_EstadoTerminalCongelado ==
  [][(/\ Inicializado
      /\ gestor_sesion.estado.estado \in EstadosTerminales
      /\ \E l \in Llamadas : pc[l] \in EnCurso
      /\ ~\E k \in Llamadas : Ejecutar(k))
     => gestor_sesion'.estado = gestor_sesion.estado]_vars

\* the edges of the specified graph of process states; besides them every
\* state may go to error and to detenido
Aristas ==
  { <<"detenido", "iniciando">>, <<"iniciando", "navegando">>,
    <<"navegando", "autenticando">>, <<"autenticando", "procesando">>,
    <<"procesando", "pausado">>, <<"pausado", "procesando">>,
    <<"procesando", "recuperando">>, <<"recuperando", "procesando">>,
    <<"procesando", "completado">> }

\* C24: state-machine edges: every change of the process state of the
\* session follows an edge of the specified graph, goes to error, or goes to
\* detenido, for every sequence of inicializar, ejecutar, pausar, reanudar
\* and detener calls.
C24_AristasDelEstado ==
  [][(Inicializado
        /\ gestor_sesion'.estado.estado # gestor_sesion.estado.estado)
     => \/ <<gestor_sesion.estado.estado, gestor_sesion'.estado.estado>>
             \in Aristas
        \/ gestor_sesion'.estado.estado \in {"error", "detenido"}]_vars

\* C25: ejecutar marks the session procesando: while a run that passed the
\* guard has a task in flight and is neither paused nor stopped, the process
\* state of the session is procesando.
C25_EjecutarMarcaProcesando ==
  Inicializado =>
    \A l \in Llamadas :
      (pc[l] = "tarea" /\ ejecutando /\ ~gestor_sesion.pausada
         /\ ~detenida[l])
      => gestor_sesion.estado.estado = "procesando"

\* C27: teardown idempotence: the teardown never raises, also on a
\* GestorNavegador that was never or only partly started, and after two
\* teardowns in a row the fields are as after the first one: all closed.
C27_LimpiezaIdempotente ==
  \A c \in Contextos :
    /\ ~limpieza[c].lanzo
    /\ limpieza[c].seguidas >= 1 => limpieza[c].tras_primera = sin_recursos
    /\ limpieza[c].seguidas = 2
         => recursos_navegador[c] = limpieza[c].tras_primera

\* C26: inicializar returns False for an empty task list and whenever opening
\* the browser, navigating to login or the login fails; no later step is then
\* attempted; the browser is closed when it returns False; it returns True
\* only when every step succeeded.
C26_InicializarFalla ==
  [][ /\ (ini.pc = "no" /\ ini'.pc = "no" /\ ini'.hechas = ini.hechas + 1)
           => (ini'.resultado = "fallo" /\ ~navegador')
      /\ (ini.pc # "no" /\ ini'.resultado = "fallo")
           => (ini'.pc = "no" /\ ~navegador')
      /\ (ini.pc # "no" /\ ini'.pc = "no" /\ ini'.resultado # "fallo")
           => /\ ini.pc = "login"
              /\ ini'.resultado = "ok"
              /\ navegador' /\ servicios' /\ Len(cola_tareas') > 0
    ]_vars

\* C28: once detener() was called while ejecutar() is inside
\* _recuperar_sistema, no further recovery step (reopening the browser,
\* navigating to login, logging in again) starts, and when ejecutar() returns
\* the browser is closed and the session is stopped.
DetenidaEnRecuperacion(l) ==
  /\ Inicializado
  /\ detenida[l]
  /\ pc[l] \in {"rec_espera", "rec_navegador", "rec_ir_login", "rec_login"}
  /\ gestor_sesion.estado.estado = "detenido"

C28_DetenerDuranteRecuperacion ==
  [][ \A l \in Llamadas :
        DetenidaEnRecuperacion(l)
          => /\ pc'[l] \in {pc[l], "fin"}
             /\ pc'[l] = "fin"
                  => (~navegador' /\ gestor_sesion'.estado.estado = "detenido")
    ]_vars

\* call l waits in the pause loop (so a task is pending), the session has
\* been resumed and detener() was not called during the call
ReanudadaEnEspera(l) ==
  /\ pc[l] = "pausa"
  /\ ~gestor_sesion.pausada
  /\ ~detenida[l]

\* C29: a run waiting in pause with tasks pending, once reanudar() was
\* called and detener() was not, eventually starts its next pending task
\* (or is paused again while it still waits).
C29_ReanudarSeObserva ==
  \A l \in Llamadas :
    ReanudadaEnEspera(l)
      ~> \/ pc[l] = "tarea"
         \/ detenida[l]
         \/ pc[l] = "pausa" /\ gestor_sesion.pausada

\* the lower-cased message contains the word timeout
ContieneTimeout(mensaje) == esta_en(Palabra, minusculas(mensaje))

\* a pattern listed before "timeout" in the table occurs in the lower-cased
\* message or type name
PatronAnterior(mensaje, tipo_exc) ==
  \E j \in 1..Len(patrones_error) :
    /\ \A k \in 1..j : patrones_error[k][1] # "timeout"
    /\ \/ esta_en(letras(patrones_error[j][1]), minusculas(mensaje))
       \/ esta_en(letras(patrones_error[j][1]),
                  minusculas(letras(tipo_exc)))

TiposTimeout == {"timeout_elemento", "timeout_red"}

\* C30 as stated: every error whose message contains "timeout" in any
\* capitalization is classified as a timeout kind, and the same message in
\* another capitalization gets the same kind.
C30_TimeoutSiempre ==
  clasificacion.tipo # "ninguno"
    => /\ ContieneTimeout(clasificacion.mensaje)
            => clasificacion.tipo \in TiposTimeout
       /\ clasificacion.previa # "ninguno"
            => clasificacion.tipo = clasificacion.previa

\* C30 amended: every error whose message contains "timeout" in any
\* capitalization, and in which no pattern listed before "timeout" in the
\* table occurs, is classified as a timeout kind; the same message in
\* another capitalization always gets the same kind.
C30_TimeoutSinPatronAnterior ==
  clasificacion.tipo # "ninguno"
    => /\ ( /\ ContieneTimeout(clasificacion.mensaje)
            /\ ~PatronAnterior(clasificacion.mensaje, clasificacion.tipo_exc) )
            => clasificacion.tipo \in TiposTimeout
       /\ clasificacion.previa # "ninguno"
            => clasificacion.tipo = clasificacion.previa

\* a message with upper-case letters and no earlier pattern was classified,
\* after the same message in another capitalization
C30_Testigo ==
  /\ clasificacion.tipo \in TiposTimeout
  /\ clasificacion.previa # "ninguno"
  /\ clasificacion.mensaje # minusculas(clasificacion.mensaje)
  /\ ~PatronAnterior(clasificacion.mensaje, clasificacion.tipo_exc)

\* pattern j of the table occurs in the lower-cased message or in the
\* lower-cased exception type name of the last call
Ocurre(j) ==
  \/ esta_en(letras(patrones_error[j][1]), minusculas(clasificacion.mensaje))
  \/ esta_en(letras(patrones_error[j][1]),
             minusculas(letras(clasificacion.tipo_exc)))

\* C31: clasificar returns the kind of the first pattern, in table order,
\* that occurs in the lower-cased message or lower-cased exception type name;
\* with no pattern, the kind the exception-type table gives for the type
\* name; without an entry there, error_desconocido; and it always returns.
C31_OrdenDeResolucion ==
  clasificacion.tipo # "ninguno"
    => /\ clasificacion.tipo \in TipoError
       /\ ~clasificacion.str_lanza
            => /\ \A j \in 1..Len(patrones_error) :
                    (Ocurre(j) /\ \A k \in 1..(j - 1) : ~Ocurre(k))
                      => clasificacion.tipo = patrones_error[j][2]
               /\ (\A j \in 1..Len(patrones_error) : ~Ocurre(j))
                    => clasificacion.tipo =
                         IF clasificacion.tipo_exc \in DOMAIN clasificacion_tipos
                           THEN clasificacion_tipos[clasificacion.tipo_exc]
                           ELSE "error_desconocido"

\* an error in which no pattern occurs got its kind from the type table
C31_Testigo ==
  /\ clasificacion.tipo = "timeout_red"
  /\ clasificacion.tipo_exc = "ConnectionError"
  /\ \A j \in 1..Len(patrones_error) : ~Ocurre(j)

\* call l returns on this step because its queue is finished, having settled
\* every task of the queue
TerminaLaCola(l) ==
  /\ Inicializado
  /\ pc[l] # "fin"
  /\ pc'[l] = "fin"
  /\ motivo'[l] = "cola_terminada"
  /\ {liquidadas'[l][i] : i \in 1..Len(liquidadas'[l])} = 1..Len(cola_tareas)

\* C32: when a run has settled every task of its queue, the state of the
\* session is completado when ejecutar() returns.
C32_CompletadoAlFinal ==
  [][ \A l \in Llamadas :
        TerminaLaCola(l) => gestor_sesion'.estado.estado = "completado"
    ]_vars

\* run l waits in the pause loop of a paused session
EnPausa(l) == pc[l] = "pausa" /\ gestor_sesion.pausada /\ ejecutando

\* the limits of SpecTerminacion are not what ends the failures
LimitesNoAlcanzados == fallos < FallosSinLimite /\ escapes < EscapesSinLimite

\* C33: every ejecutar() run that is not left waiting in pause for ever
\* terminates, whatever fails: a task's retry count only grows, no kind
\* grants a retry at count 5 or more, and the recovery loop of a run counts at
\* most max_intentos_globales attempts.
C33_Terminacion ==
  /\ \A l \in Llamadas :
       (<>[]~EnPausa(l)) => (pc[l] \in EnCurso ~> pc[l] = "fin")
  /\ [](\A l \in Llamadas : intentos_globales[l] <= max_intentos_globales)
  /\ [](\A t \in 1..Len(cola_tareas) : cola_tareas[t] <= 5)
  /\ [](\A tipo \in TipoError : ~puede_reintentar(tipo, 5))
  /\ []LimitesNoAlcanzados
  /\ [][ini' = ini => \A t \in 1..Len(cola_tareas) :
                         cola_tareas'[t] >= cola_tareas[t]]_vars

\* a run has returned after its task used up the five retries of a network
\* timeout and its recovery loop gave up at the third exception
C33_Testigo ==
  \E l \in Llamadas :
    /\ pc[l] = "fin"
    /\ motivo[l] = "max_intentos"
    /\ intentos_globales[l] = max_intentos_globales
    /\ cola_tareas = <<5>>

\* C34: an ejecutar() call rejected by the guard leaves self.ejecutando and
\* the session as they were.
C34_RechazadaSinEfecto ==
  [][ \A l \in Llamadas :
        (Inicializado /\ pc[l] = "libre" /\ motivo'[l] = "rechazada")
          => (ejecutando' = ejecutando /\ gestor_sesion' = gestor_sesion)
    ]_vars

\* the runs of the processor of context c that are in progress
EnProgreso(c) ==
  {k \in LlamadasProcesador : procesadores[c].pc[k] = "controlador"}

\* this step is a start request on the processor of context c, made while a
\* run of that processor is in progress
PeticionDuranteEjecucion(c, k) ==
  /\ EnProgreso(c) # {}
  /\ procesadores[c].pc[k] = "libre"
  /\ procesadores'[c].pc[k] # "libre"

\* C35: for each context at most one run is in progress at a time, in the
\* facade and in the processor; a start request made while the context's run
\* is in progress is answered with a failure and leaves the active flag true.
C35_UnaEjecucionPorContexto ==
  /\ [](\A c \in Contextos : Cardinality(EnProgreso(c)) <= 1)
  /\ [][\A c \in Contextos :
          /\ \A k \in LlamadasProcesador :
               PeticionDuranteEjecucion(c, k) =>
                 /\ procesadores'[c].resultado[k] = "False"
                 /\ procesadores'[c].ejecutando
          /\ (proceso_activo[c] /\ dual'.ramas[c] # dual.ramas[c]) =>
               proceso_activo'[c]]_vars

\* C36: in every reachable state of a controller, whatever the calls, task
\* failures and global recoveries were, the session has not counted more
\* items than the queue holds: items_procesados <= items_totales.
C36_ProcesadosNoSuperanTotal ==
  gestor_sesion.estado.existe =>
    gestor_sesion.estado.items_procesados <= gestor_sesion.estado.items_totales

\* C37: in every reachable state of a session, items_procesados =
\* items_exitosos + items_fallidos, and each update of the progress (a step
\* that changes a counter and is not a new inicializar_estado) adds exactly 1
\* to items_procesados and exactly 1 to one of items_exitosos, items_fallidos.
C37_ContadoresConsistentes ==
  /\ [](gestor_sesion.estado.items_procesados =
          gestor_sesion.estado.items_exitosos +
          gestor_sesion.estado.items_fallidos)
  /\ [][LET antes == gestor_sesion.estado
            despues == gestor_sesion'.estado
        IN (/\ ini'.hechas = ini.hechas
            /\ <<despues.items_procesados, despues.items_exitosos,
                 despues.items_fallidos>> #
               <<antes.items_procesados, antes.items_exitosos,
                 antes.items_fallidos>>)
           => /\ despues.items_procesados = antes.items_procesados + 1
              /\ \/ /\ despues.items_exitosos = antes.items_exitosos + 1
                    /\ despues.items_fallidos = antes.items_fallidos
                 \/ /\ despues.items_exitosos = antes.items_exitosos
                    /\ despues.items_fallidos = antes.items_fallidos + 1]_vars

\* the progress was updated for a success and for a failure
C37_Testigo ==
  /\ gestor_sesion.estado.items_exitosos >= 1
  /\ gestor_sesion.estado.items_fallidos >= 1
  /\ gestor_sesion.estado.items_procesados >= 2

\* C38: an ejecutar() call made when the most recent inicializar() did not
\* return true (none was made, or it failed at the browser, navigation or
\* login step) starts no task and returns false.
C38_SinInicializacionNoEjecuta ==
  [][\A l \in Llamadas :
       (/\ pc[l] = "libre"
        /\ pc'[l] # "libre"
        /\ ~Inicializado)
       => /\ pc'[l] = "fin"
          /\ resultado'[l] = FALSE]_vars

\* C39: an error whose message contains "connection timeout" and in which no
\* session, browser or element pattern listed before the timeout patterns
\* occurs is classified timeout_red, the kind the table gives that pattern.
C39_TimeoutDeRed ==
  (/\ clasificacion.tipo # "ninguno"
   /\ ~clasificacion.str_lanza
   /\ esta_en(letras("connection timeout"), clasificacion.mensaje)
   /\ ~PatronAnterior(clasificacion.mensaje, clasificacion.tipo_exc))
  => clasificacion.tipo = "timeout_red"

\* the calls of the full restart, in the order the strategy makes them
PasosReinicio ==
  <<"cerrar_navegador", "iniciar_navegador", "ir_a_login",
    "ejecutar_login_completo">>

\* the calls recorded after the strategy's method was entered
PasosHechos ==
  LET t == reinicio.traza
      desde == IF reinicio.espera > 0 THEN 3 ELSE 2
  IN IF Len(t) < desde THEN << >> ELSE SubSeq(t, desde, Len(t))

\* C40: recuperar() first waits the computed time and only then runs the
\* strategy's method; reiniciar_navegador_completo closes the browser,
\* reopens it, navigates to the login page and logs in, in this order, makes
\* no later call once the reopening, the navigation or the login has failed,
\* and returns true exactly when all three succeeded.
C40_ReinicioCompleto ==
  /\ (reinicio.espera > 0 /\ reinicio.traza # << >>)
       => reinicio.traza[1].paso = "espera"
  /\ reinicio.pc \in {"cerrar_navegador", "pausa", "iniciar_navegador",
                      "ir_a_login", "ejecutar_login_completo", "fin"}
       => \E i \in 1..Len(reinicio.traza) :
            /\ reinicio.traza[i].paso = "estrategia"
            /\ \A j \in 1..(i - 1) : reinicio.traza[j].paso = "espera"
            /\ i = IF reinicio.espera > 0 THEN 2 ELSE 1
  /\ reinicio.estrategia = "reiniciar_navegador_completo"
       => /\ Len(PasosHechos) <= Len(PasosReinicio)
          /\ \A i \in 1..Len(PasosHechos) :
               /\ PasosHechos[i].paso = PasosReinicio[i]
               /\ (1 < i /\ i < Len(PasosHechos)) => PasosHechos[i].ok
          /\ reinicio.pc = "fin"
               => reinicio.valor =
                    /\ Len(PasosHechos) = Len(PasosReinicio)
                    /\ \A i \in 2..Len(PasosReinicio) : PasosHechos[i].ok

\* a full restart after a wait whose navigation failed: the login was not
\* attempted and false was returned
C40_Testigo ==
  /\ reinicio.pc = "fin"
  /\ reinicio.estrategia = "reiniciar_navegador_completo"
  /\ reinicio.espera > 0
  /\ Len(PasosHechos) = 3
  /\ ~PasosHechos[3].ok
  /\ ~reinicio.valor

====
